---- MODULE Spec2Model ----
(***************************************************************************)
(* Verification model of the video_annotation repository: the caption      *)
(* annotation server and read-only viewer (caption_dataset_viewer), the    *)
(* LLM classification scripts (global_edit_detection,                      *)
(* camera_angle_order_swap_detection, detect_mostly_static), the merged     *)
(* caption API and the ShotBench viewer with its data preparation           *)
(* (shotbench_viewer).                                                     *)
(*                                                                         *)
(* Each subsystem has its own variables and its own specification; a       *)
(* specification leaves the variables of the other subsystems unchanged.   *)
(***************************************************************************)
EXTENDS Integers, Sequences, FiniteSets, TLC

VARIABLES
    \* is_annotation_complete applied to one annotation
    ann,        \* the annotation handed to is_annotation_complete
    complete,   \* its return value
    checked,    \* TRUE once the function has returned
    \* the annotations directory shared by server.py and viewer.py
    files,      \* annotations/<dataset>/sample_<index>.json: existence and content
    dirs,       \* the dataset directories that exist under annotations/
    \* caption annotation server (server.py)
    thr,        \* per request thread: where it is inside do_POST / save_annotation
    last,       \* what the last handler step did: request, status, response body
    nposts,     \* number of POST requests received so far
    saved,      \* per sample file: how many POSTs were answered with success, and
                \* the body of the latest of them
    \* read-only viewer (viewer.py)
    vlast,      \* the last response of the viewer
    \* LLM response parsing of the detection scripts
    llmOut,     \* what llm.generate did: raised, returned None, or returned a text
    cls,        \* the classifier that ran and the (label, rationale, raw_response) it returned
    \* the ThreadPoolExecutor block of main() in the detection scripts
    pool,       \* where main() is, which script runs, how many samples it has
    fut,        \* per sample: the state of its future
    samples,    \* the sample dicts (label, rationale, raw_response) and the samples list
    outfiles,   \* sampled_data.jsonl and the counts of report.md, once written
    \* MergedCaptionAPI.merge
    mergeIn,    \* the captions keys and what get_llm / llm.generate will do
    mergeOut,   \* what merge did: its MergeResult and the number of generate calls
    \* extract_samples_from_export of global_edit_detection.py
    export,     \* the export data and the requested sample_count
    extracted,  \* the samples it returned
    \* the ShotBench viewer server (shotbench_viewer/server.py)
    shotbench_data,   \* the ShotBench sample list loaded at startup, shared by all handlers
    refineshot_data,  \* the RefineShot sample list loaded at startup
    annfiles,   \* annotations/sample_<index>.json: existence and content
    sthr,       \* per request thread: where it is inside do_POST / save_annotation
    slast,      \* what the last handler step did: request, status, response body
    \* generate_refineshot_from_shotbench (shotbench_viewer/download_data.py)
    refineIn,   \* shotbench_samples and categories
    refineOut,  \* the refineshot_samples it built
    \* the prompt template store (caption/test_llm.py)
    templates,  \* json_policy/templates: folder -> file stem -> file
    tlast       \* the last call on the store and what it returned

cmpVars == <<ann, complete, checked>>
dirVars == <<files, dirs>>
srvVars == <<thr, last, nposts, saved>>
viewVars == <<vlast>>
parseVars == <<llmOut, cls>>
poolVars == <<pool, fut, samples, outfiles>>
mergeVars == <<mergeIn, mergeOut>>
extractVars == <<export, extracted>>
shotVars == <<shotbench_data, refineshot_data, annfiles, sthr, slast>>
refineVars == <<refineIn, refineOut>>
tmplVars == <<templates, tlast>>

vars == <<ann, complete, checked, files, dirs, thr, last, nposts, saved, vlast, llmOut, cls,
          pool, fut, samples, outfiles, mergeIn, mergeOut, export, extracted,
          shotbench_data, refineshot_data, annfiles, sthr, slast,
          refineIn, refineOut,
          templates, tlast>>

\* what is_annotation_complete never touches
notCmp == <<dirVars, srvVars, viewVars, parseVars, poolVars, mergeVars, extractVars, shotVars, refineVars, tmplVars>>
\* what the caption annotation server never touches
notSrv == <<cmpVars, viewVars, parseVars, poolVars, mergeVars, extractVars, shotVars, refineVars, tmplVars>>
\* what the viewer never touches
notView == <<cmpVars, dirVars, srvVars, parseVars, poolVars, mergeVars, extractVars, shotVars, refineVars, tmplVars>>
\* what a classifier never touches
notParse == <<cmpVars, dirVars, srvVars, viewVars, poolVars, mergeVars, extractVars, shotVars, refineVars, tmplVars>>
\* what the thread pool block never touches
notPool == <<cmpVars, dirVars, srvVars, viewVars, parseVars, mergeVars, extractVars, shotVars, refineVars, tmplVars>>
\* what merge never touches
notMerge == <<cmpVars, dirVars, srvVars, viewVars, parseVars, poolVars, extractVars, shotVars, refineVars, tmplVars>>
\* what extract_samples_from_export never touches
notExtract == <<cmpVars, dirVars, srvVars, viewVars, parseVars, poolVars, mergeVars, shotVars, refineVars, tmplVars>>
\* what the ShotBench viewer server (shotbench_viewer/server.py) never touches
notShot == <<cmpVars, dirVars, srvVars, viewVars, parseVars, poolVars, mergeVars, extractVars, refineVars, tmplVars>>
\* what generate_refineshot_from_shotbench (shotbench_viewer/download_data.py) never touches
notRefine == <<cmpVars, dirVars, srvVars, viewVars, parseVars, poolVars, mergeVars, extractVars, shotVars, tmplVars>>
\* what the prompt template store (caption/test_llm.py) never touches
notTmpl == <<cmpVars, dirVars, srvVars, viewVars, parseVars, poolVars, mergeVars, extractVars, shotVars, refineVars>>

(***************************************************************************)
(* JSON values as Python sees them after json.load: None, numbers, lists   *)
(* and dicts.  A dict is a function from its keys to values; dict.get(k)   *)
(* is None when the key is absent.                                         *)
(***************************************************************************)
JNull == [t |-> "null"]
JNum(n) == [t |-> "num", n |-> n]
JList(s) == [t |-> "list", items |-> s]
JDict(m) == [t |-> "dict", m |-> m]

\* Python truthiness: `not v`
Falsy(v) ==
    \/ v = JNull
    \/ (v.t = "num" /\ v.n = 0)
    \/ (v.t = "list" /\ v.items = <<>>)
    \/ (v.t = "dict" /\ DOMAIN v.m = {})

\* dict.get(k): the value, or None when the key is missing
Get(d, k) == IF k \in DOMAIN d.m THEN d.m[k] ELSE JNull

\* All functions from a subset of keys to vals (the dicts over these keys)
DictsOver(keys, vals) == UNION {[D -> vals] : D \in SUBSET keys}

\* Sequences over S of length at most n
SeqsUpTo(S, n) == UNION {[1..k -> S] : k \in 0..n}

required_fields == <<"overall", "camera", "subject", "motion", "scene", "spatial">>

\* A plausible slip: testing a rating for truthiness instead of `is not None`,
\* which turns a rating of 0 into a missing one.
is_annotation_complete_truthy(annotation) ==
    IF Falsy(annotation) THEN FALSE
    ELSE
        LET all_ratings_complete ==
                \A i \in 1..Len(required_fields) :
                    ~Falsy(Get(annotation, required_fields[i]))
            segs == Get(annotation, "segments")
            segments_valid ==
                IF ~Falsy(segs) /\ Len(segs.items) > 0
                THEN \A j \in 1..Len(segs.items) :
                        /\ Get(segs.items[j], "startIndex") # JNull
                        /\ Get(segs.items[j], "endIndex") # JNull
                ELSE TRUE
        IN all_ratings_complete /\ segments_valid

\* server.py is_annotation_complete (viewer.py holds the same function as a method)
is_annotation_complete(annotation) ==
    IF Falsy(annotation) THEN FALSE
    ELSE
        LET all_ratings_complete ==
                \A i \in 1..Len(required_fields) :
                    Get(annotation, required_fields[i]) # JNull
            segs == Get(annotation, "segments")
            segments_valid ==
                IF ~Falsy(segs) /\ Len(segs.items) > 0
                THEN \A j \in 1..Len(segs.items) :
                        /\ Get(segs.items[j], "startIndex") # JNull
                        /\ Get(segs.items[j], "endIndex") # JNull
                ELSE TRUE
        IN all_ratings_complete /\ segments_valid

(***************************************************************************)
(* The annotations is_annotation_complete is checked on: None and every    *)
(* dict over the six rating fields and "segments", a rating being null or  *)
(* the number 0, segments being null or a list of at most MaxSegments      *)
(* segment dicts over startIndex / endIndex.                               *)
(***************************************************************************)
MaxSegments == 2

RatingFieldSet == {required_fields[i] : i \in 1..Len(required_fields)}
RatingValues == {JNull, JNum(0)}
SegmentDicts == {JDict(m) : m \in DictsOver({"startIndex", "endIndex"}, {JNull, JNum(0)})}
SegmentsValues(n) == {JNull} \cup {JList(s) : s \in SeqsUpTo(SegmentDicts, n)}

\* a dict with the given ratings and, when segs is not "absent", a segments key
WithSegments(ratings, segs) ==
    [k \in DOMAIN ratings \cup {"segments"} |->
        IF k = "segments" THEN segs ELSE ratings[k]]

AnnotationDicts(n) ==
    {JDict(r) : r \in DictsOver(RatingFieldSet, RatingValues)}
    \cup {JDict(WithSegments(r, s)) :
            r \in DictsOver(RatingFieldSet, RatingValues), s \in SegmentsValues(n)}

Annotations(n) == {JNull} \cup AnnotationDicts(n)

CmpIdle == ann = JNull /\ complete = FALSE /\ checked = FALSE

CmpInit == ann \in Annotations(MaxSegments) /\ complete = FALSE /\ checked = FALSE

\* one call of is_annotation_complete(ann)
CheckComplete ==
    /\ ~checked
    /\ complete' = is_annotation_complete(ann)
    /\ checked' = TRUE
    /\ UNCHANGED <<ann, notCmp>>

\* ---- C1 ----------------------------------------------------------------
HasSegmentList(a) == "segments" \in DOMAIN a.m /\ a.m["segments"].t = "list"

SixRatingsSet(a) ==
    \A f \in RatingFieldSet : f \in DOMAIN a.m /\ a.m[f].t # "null"

SegmentHasIndices(seg) ==
    /\ "startIndex" \in DOMAIN seg.m /\ seg.m["startIndex"].t # "null"
    /\ "endIndex" \in DOMAIN seg.m /\ seg.m["endIndex"].t # "null"

\* C1: is_annotation_complete(a) is true exactly when a is a non-empty dict,
\* each of the six rating fields is present and non-null, and every segment of
\* a['segments'] (if there are any) has startIndex and endIndex non-null; it is
\* false otherwise.  With no segments key or an empty segment list the six
\* ratings alone decide.
C1_CompleteExactly ==
    checked =>
        /\ complete <=>
            /\ ann.t = "dict"
            /\ DOMAIN ann.m # {}
            /\ SixRatingsSet(ann)
            /\ HasSegmentList(ann) =>
                \A j \in 1..Len(ann.m["segments"].items) :
                    SegmentHasIndices(ann.m["segments"].items[j])
        /\ (/\ ann.t = "dict"
            /\ SixRatingsSet(ann)
            /\ ("segments" \notin DOMAIN ann.m \/ ann.m["segments"] = JList(<<>>)))
           => complete

\* a complete annotation whose ratings are 0 and which has two indexed segments
C1_Witness ==
    /\ checked
    /\ complete
    /\ HasSegmentList(ann)
    /\ Len(ann.m["segments"].items) = 2
    /\ \A f \in RatingFieldSet : ann.m[f] = JNum(0)


(***************************************************************************)
(* The annotations directory.  A file is the sequence of the lines that    *)
(* json.dump(..., indent=2) wrote: an opening brace, one line per member,  *)
(* a closing brace.  json.load parses such a sequence back and raises on   *)
(* anything else (an empty file, a missing brace, text after the closing   *)
(* brace, a hole).                                                         *)
(***************************************************************************)
Datasets == {"d1", "d2"}
Indices == {0, 1}

OpenBrace == [t |-> "open"]
CloseBrace == [t |-> "close"]
NullText == [t |-> "nulltext"]
NulBytes == [t |-> "nul"]
Member(k, v) == [t |-> "member", k |-> k, v |-> v]

\* the order in which the members of a body are written
KeyOrder == required_fields \o <<"segments">>

\* json.dump(annotation_data, f, indent=2): the text written, line by line
json_dump(v) ==
    IF v = JNull THEN <<NullText>>
    ELSE
        LET keys == SelectSeq(KeyOrder, LAMBDA k : k \in DOMAIN v.m)
        IN <<OpenBrace>>
             \o [i \in 1..Len(keys) |-> Member(keys[i], v.m[keys[i]])]
             \o <<CloseBrace>>

\* json.load(f): [raised, v]; a repeated key keeps its last value
json_load(data) ==
    IF data = <<NullText>> THEN [raised |-> FALSE, v |-> JNull]
    ELSE IF /\ Len(data) >= 2
            /\ data[1] = OpenBrace
            /\ data[Len(data)] = CloseBrace
            /\ \A i \in 2..(Len(data) - 1) : data[i].t = "member"
    THEN
        LET mid == 2..(Len(data) - 1)
            lastOf(k) == CHOOSE i \in mid :
                            /\ data[i].k = k
                            /\ \A j \in mid : j > i => data[j].k # k
        IN [raised |-> FALSE,
            v |-> JDict([k \in {data[i].k : i \in mid} |-> data[lastOf(k)].v])]
    ELSE [raised |-> TRUE, v |-> JNull]

NoFile == [exists |-> FALSE, data |-> <<>>]

\* A plausible slip: opening the file without truncating it ('r+' for 'w')
open_w_keep(f) == [exists |-> TRUE, data |-> f.data]

\* open(annotation_file, 'w'): the file is created or truncated to nothing
open_w(f) == [exists |-> TRUE, data |-> <<>>]

Max(a, b) == IF a >= b THEN a ELSE b

\* write(chunk) at offset off of an open file; a gap before off reads as NUL bytes
write_at(f, off, chunk) ==
    [exists |-> TRUE,
     data |-> [i \in 1..Max(Len(f.data), off + Len(chunk)) |->
                IF i > off /\ i <= off + Len(chunk) THEN chunk[i - off]
                ELSE IF i <= Len(f.data) THEN f.data[i]
                ELSE NulBytes]]

\* A plausible slip: one file per dataset, the sample index left out of the name
annotation_file_no_index(dataset_name, sample_index) == <<dataset_name, 0>>

\* annotations_dir / dataset_name / f"sample_{sample_index}.json"
annotation_file(dataset_name, sample_index) == <<dataset_name, sample_index>>

Paths == {annotation_file(d, i) : d \in Datasets, i \in Indices}

DirInit == files = [p \in Paths |-> NoFile] /\ dirs = {}
(***************************************************************************)
(* Caption annotation server (caption_dataset_viewer/server.py).           *)
(* A store operation returns [raised, v]: raised is TRUE when an exception *)
(* leaves the operation, v is its return value otherwise.                  *)
(***************************************************************************)
Ret(v) == [raised |-> FALSE, v |-> v]
Raise == [raised |-> TRUE, v |-> JNull]

\* The HuggingFace repository: the datasets that have a JSON file in it; every
\* such dataset lists one sample per index of Indices.
HFDatasets == {"d1"}

\* get_annotation: no try/except of its own
get_annotation(fs, dataset_name, sample_index) ==
    LET f == fs[annotation_file(dataset_name, sample_index)]
    IN IF f.exists
       THEN (LET r == json_load(f.data) IN IF r.raised THEN Raise ELSE Ret(r.v))
       ELSE Ret(JNull)

\* get_datasets: the datasets of the repository, [] when listing it fails
get_datasets(hfUp) ==
    IF hfUp THEN Ret([t |-> "datasets", names |-> HFDatasets])
    ELSE Ret([t |-> "datasets", names |-> {}])

\* the annotation_status get_dataset_samples gives one sample
annotation_status(annotation) ==
    IF ~Falsy(annotation)
    THEN (IF is_annotation_complete(annotation) THEN "completed" ELSE "incomplete")
    ELSE "pending"

\* get_dataset_samples: the dataset with an annotation_status per sample, None
\* when the dataset has no JSON file or anything raises
get_dataset_samples(fs, dataset_name, hfUp) ==
    IF ~hfUp THEN Ret(JNull)
    ELSE IF dataset_name \notin HFDatasets THEN Ret(JNull)
    ELSE IF \E i \in Indices : get_annotation(fs, dataset_name, i).raised
    THEN Ret(JNull)
    ELSE Ret([t |-> "dataset",
              status |-> [i \in Indices |->
                            annotation_status(get_annotation(fs, dataset_name, i).v)]])

\* get_single_sample: the sample and its annotation, None when there is none
get_single_sample(fs, dataset_name, sample_index, hfUp) ==
    LET dataset == get_dataset_samples(fs, dataset_name, hfUp).v
        annotation == get_annotation(fs, dataset_name, sample_index)
    IN IF dataset # JNull /\ sample_index \in Indices
       THEN (IF annotation.raised THEN Ret(JNull)
             ELSE Ret([t |-> "sample",
                       annotation_status |-> dataset.status[sample_index],
                       annotation |-> annotation.v]))
       ELSE Ret(JNull)

RECURSIVE SumOver(_, _)
\* sum of f[x] over the finite set S = DOMAIN f restricted to S
SumOver(S, f) ==
    IF S = {} THEN 0
    ELSE LET x == CHOOSE y \in S : TRUE IN f[x] + SumOver(S \ {x}, f)

\* round(sum / n, 2), None when there is nothing to average
Avg(sum, n) == IF n = 0 THEN JNull ELSE [t |-> "avg", sum |-> sum, n |-> n]

\* _empty_stats_response
empty_stats_response ==
    [t |-> "stats", total |-> 0, completed |-> 0, incomplete |-> 0, pending |-> 0,
     avg_segments |-> JNull,
     avg_scores |-> [f \in RatingFieldSet |-> JNull],
     video_all_count |-> 0, video_completed_count |-> 0]

\* A plausible slip: total counts the samples of the dataset, len(all_samples)
calculate_stats_total_of_samples(annotations_by_index) ==
    LET idx == DOMAIN annotations_by_index
        withSegs == {i \in idx : ~Falsy(Get(annotations_by_index[i], "segments"))}
        scored(f) == {i \in idx : Get(annotations_by_index[i], f) # JNull}
        completed_indices == {i \in idx : is_annotation_complete(annotations_by_index[i])}
    IN [t |-> "stats",
        total |-> Cardinality(Indices),
        completed |-> Cardinality(completed_indices),
        incomplete |-> Cardinality(idx \ completed_indices),
        pending |-> 0,
        avg_segments |->
            Avg(SumOver(withSegs,
                        [i \in withSegs |-> Len(annotations_by_index[i].m["segments"].items)]),
                Cardinality(withSegs)),
        avg_scores |->
            [f \in RatingFieldSet |->
                Avg(SumOver(scored(f), [i \in scored(f) |-> annotations_by_index[i].m[f].n]),
                    Cardinality(scored(f)))],
        video_all_count |-> Cardinality(Indices),
        video_completed_count |-> Cardinality(completed_indices)]

\* _calculate_stats_with_samples(all_samples, annotations_by_index)
calculate_stats_with_samples(annotations_by_index) ==
    LET idx == DOMAIN annotations_by_index
        withSegs == {i \in idx : ~Falsy(Get(annotations_by_index[i], "segments"))}
        scored(f) == {i \in idx : Get(annotations_by_index[i], f) # JNull}
        completed_indices == {i \in idx : is_annotation_complete(annotations_by_index[i])}
    IN [t |-> "stats",
        total |-> Cardinality(idx),
        completed |-> Cardinality(completed_indices),
        incomplete |-> Cardinality(idx \ completed_indices),
        pending |-> 0,
        avg_segments |->
            Avg(SumOver(withSegs,
                        [i \in withSegs |-> Len(annotations_by_index[i].m["segments"].items)]),
                Cardinality(withSegs)),
        avg_scores |->
            [f \in RatingFieldSet |->
                Avg(SumOver(scored(f), [i \in scored(f) |-> annotations_by_index[i].m[f].n]),
                    Cardinality(scored(f)))],
        video_all_count |-> Cardinality(Indices),
        video_completed_count |-> Cardinality(completed_indices)]

\* get_annotation_stats: the empty response when the dataset has no JSON file
\* or anything raises
get_annotation_stats(fs, ds, dataset_name, hfUp) ==
    LET present == {i \in Indices : fs[annotation_file(dataset_name, i)].exists}
        loaded == [i \in present |-> json_load(fs[annotation_file(dataset_name, i)].data)]
    IN IF ~hfUp THEN Ret(empty_stats_response)
       ELSE IF dataset_name \notin HFDatasets THEN Ret(empty_stats_response)
       ELSE IF dataset_name \notin ds THEN Ret(calculate_stats_with_samples(<<>>))
       ELSE IF \E i \in present : loaded[i].raised \/ loaded[i].v = JNull
       THEN Ret(empty_stats_response)
       ELSE Ret(calculate_stats_with_samples([i \in present |-> loaded[i].v]))
(***************************************************************************)
(* Requests.  A GET is served in one step.  A POST is served in steps:     *)
(* do_POST parses the body and save_annotation opens the file (creating or *)
(* truncating it); the text is written through a buffer that is flushed    *)
(* BufferLines lines at a time, the rest on close; then the response goes  *)
(* out.  Request threads (ThreadingMixIn) interleave between these steps.  *)
(***************************************************************************)
Threads == {"t1", "t2"}
MaxPosts == 2
BufferLines == 4

\* the bodies clients post
BodyEmpty == JDict(<<>>)
BodyPartial == JDict([k \in {"overall", "camera"} |-> IF k = "overall" THEN JNum(4) ELSE JNull])
BodyComplete == JDict([k \in RatingFieldSet |-> IF k = "overall" THEN JNum(4) ELSE JNum(0)])
BodyBadSegment ==
    JDict(WithSegments([k \in RatingFieldSet |-> JNum(2)],
                       JList(<<JDict([k \in {"startIndex"} |-> JNum(0)])>>)))
PostBodies == {BodyEmpty, BodyPartial, BodyComplete, BodyBadSegment}

IdleThread ==
    [pc |-> "idle", target |-> <<>>, path |-> <<>>, buf |-> <<>>, off |-> 0, body |-> JNull]
AllIdle == \A t \in Threads : thr[t].pc = "idle"

NoRequest ==
    [tick |-> 0, method |-> "none", endpoint |-> "none", target |-> <<>>,
     status |-> "none", raisedIn |-> "none", body |-> JNull]

\* the record of a handler step
Step(method, endpoint, target, status, raisedIn, body) ==
    [tick |-> 1 - last.tick, method |-> method, endpoint |-> endpoint,
     target |-> target, status |-> status, raisedIn |-> raisedIn, body |-> body]

SrvInit ==
    /\ thr = [t \in Threads |-> IdleThread]
    /\ last = NoRequest
    /\ nposts = 0
    /\ saved = [p \in Paths |-> [n |-> 0, body |-> JNull]]

\* do_GET, /api/datasets
GetDatasets(hfUp) ==
    /\ last' = Step("GET", "datasets", <<>>, "200", "none", get_datasets(hfUp).v)
    /\ UNCHANGED <<thr, nposts, saved, files, dirs, notSrv>>

\* do_GET, /api/dataset/<name>: 404 when get_dataset_samples returns None
GetDataset(d, hfUp) ==
    LET data == get_dataset_samples(files, d, hfUp).v
    IN /\ last' = Step("GET", "dataset", <<d>>,
                       IF data # JNull THEN "200" ELSE "404", "none", data)
       /\ UNCHANGED <<thr, nposts, saved, files, dirs, notSrv>>

\* do_GET, /api/sample/<name>/<index>
GetSample(d, i, hfUp) ==
    LET data == get_single_sample(files, d, i, hfUp).v
    IN /\ last' = Step("GET", "sample", <<d, i>>,
                       IF data # JNull THEN "200" ELSE "404", "none", data)
       /\ UNCHANGED <<thr, nposts, saved, files, dirs, notSrv>>

\* do_GET, /api/annotation/<name>/<index>: an exception of get_annotation
\* leaves do_GET and no response is sent
GetAnnotation(d, i) ==
    LET r == get_annotation(files, d, i)
    IN /\ last' = IF r.raised
                  THEN Step("GET", "annotation", <<d, i>>, "exception", "get_annotation", JNull)
                  ELSE Step("GET", "annotation", <<d, i>>, "200", "none", r.v)
       /\ UNCHANGED <<thr, nposts, saved, files, dirs, notSrv>>

\* do_GET, /api/stats/<name>
GetStats(d, hfUp) ==
    /\ last' = Step("GET", "stats", <<d>>, "200", "none",
                    get_annotation_stats(files, dirs, d, hfUp).v)
    /\ UNCHANGED <<thr, nposts, saved, files, dirs, notSrv>>

\* do_POST whose body is not JSON: json.loads raises inside do_POST
PostBadJson(t, d, i) ==
    /\ thr[t].pc = "idle"
    /\ nposts < MaxPosts
    /\ nposts' = nposts + 1
    /\ last' = Step("POST", "annotation", <<d, i>>, "exception", "do_POST", JNull)
    /\ UNCHANGED <<thr, saved, files, dirs, notSrv>>

\* do_POST whose save fails at mkdir or open: save_annotation returns False
PostSaveFails(t, d, i) ==
    /\ thr[t].pc = "idle"
    /\ nposts < MaxPosts
    /\ nposts' = nposts + 1
    /\ last' = Step("POST", "annotation", <<d, i>>, "500", "none", JNull)
    /\ UNCHANGED <<thr, saved, files, dirs, notSrv>>

\* do_POST up to open(annotation_file, 'w') in save_annotation
PostOpen(t, d, i, annotation_data) ==
    LET p == annotation_file(d, i)
    IN /\ thr[t].pc = "idle"
       /\ nposts < MaxPosts
       /\ nposts' = nposts + 1
       /\ dirs' = dirs \cup {d}
       /\ files' = [files EXCEPT ![p] = open_w(files[p])]
       /\ thr' = [thr EXCEPT ![t] = [pc |-> "saving", target |-> <<d, i>>, path |-> p,
                                     buf |-> json_dump(annotation_data), off |-> 0,
                                     body |-> annotation_data]]
       /\ last' = Step("POST", "annotation", <<d, i>>, "none", "none", JNull)
       /\ UNCHANGED <<saved, notSrv>>

\* json.dump fills the buffer: a full buffer is written to the file
SaveFlush(t) ==
    /\ thr[t].pc = "saving"
    /\ Len(thr[t].buf) > BufferLines
    /\ files' = [files EXCEPT ![thr[t].path] =
                    write_at(files[thr[t].path], thr[t].off, SubSeq(thr[t].buf, 1, BufferLines))]
    /\ thr' = [thr EXCEPT ![t].buf = SubSeq(thr[t].buf, BufferLines + 1, Len(thr[t].buf)),
                          ![t].off = thr[t].off + BufferLines]
    /\ last' = Step("POST", "annotation", thr[t].target, "none", "none", JNull)
    /\ UNCHANGED <<nposts, saved, dirs, notSrv>>

\* the with block ends: the rest of the buffer is written, the file is closed,
\* save_annotation returns True and do_POST answers {"success": true}
SaveClose(t) ==
    /\ thr[t].pc = "saving"
    /\ Len(thr[t].buf) <= BufferLines
    /\ files' = [files EXCEPT ![thr[t].path] =
                    write_at(files[thr[t].path], thr[t].off, thr[t].buf)]
    /\ thr' = [thr EXCEPT ![t] = IdleThread]
    /\ saved' = [saved EXCEPT ![thr[t].path] = [n |-> saved[thr[t].path].n + 1, body |-> thr[t].body]]
    /\ last' = Step("POST", "annotation", thr[t].target, "200", "none", JNull)
    /\ UNCHANGED <<nposts, dirs, notSrv>>

ViewIdle == vlast = NoRequest

\* requests of the caption annotation server, one at a time
SeqNext ==
    \/ AllIdle /\ \E hfUp \in BOOLEAN : GetDatasets(hfUp)
    \/ AllIdle /\ \E d \in Datasets, hfUp \in BOOLEAN : GetDataset(d, hfUp)
    \/ AllIdle /\ \E d \in Datasets, i \in Indices, hfUp \in BOOLEAN : GetSample(d, i, hfUp)
    \/ AllIdle /\ \E d \in Datasets, i \in Indices : GetAnnotation(d, i)
    \/ AllIdle /\ \E d \in Datasets, hfUp \in BOOLEAN : GetStats(d, hfUp)
    \/ AllIdle /\ \E t \in Threads, d \in Datasets, i \in Indices : PostBadJson(t, d, i)
    \/ AllIdle /\ \E t \in Threads, d \in Datasets, i \in Indices : PostSaveFails(t, d, i)
    \/ AllIdle /\ \E t \in Threads, d \in Datasets, i \in Indices, b \in PostBodies :
                    PostOpen(t, d, i, b)
    \/ \E t \in Threads : SaveFlush(t)
    \/ \E t \in Threads : SaveClose(t)

\* requests handled by overlapping threads
ConcNext ==
    \/ \E hfUp \in BOOLEAN : GetDatasets(hfUp)
    \/ \E d \in Datasets, hfUp \in BOOLEAN : GetDataset(d, hfUp)
    \/ \E d \in Datasets, i \in Indices, hfUp \in BOOLEAN : GetSample(d, i, hfUp)
    \/ \E d \in Datasets, i \in Indices : GetAnnotation(d, i)
    \/ \E d \in Datasets, hfUp \in BOOLEAN : GetStats(d, hfUp)
    \/ \E t \in Threads, d \in Datasets, i \in Indices : PostBadJson(t, d, i)
    \/ \E t \in Threads, d \in Datasets, i \in Indices : PostSaveFails(t, d, i)
    \/ \E t \in Threads, d \in Datasets, i \in Indices, b \in PostBodies :
            PostOpen(t, d, i, b)
    \/ \E t \in Threads : SaveFlush(t)
    \/ \E t \in Threads : SaveClose(t)

\* ---- C2 ----------------------------------------------------------------
\* what GET /api/annotation/<d>/<i> has to return: the body of the latest
\* successful POST for the sample, null when there was none
LatestBody(d, i) ==
    IF saved[<<d, i>>].n > 0 THEN saved[<<d, i>>].body ELSE JNull

NoSaveInFlight(p) == \A t \in Threads : ~(thr[t].pc = "saving" /\ thr[t].path = p)

\* C3: last writer wins under concurrency: once every POST to a sample has
\* finished, its file holds exactly the complete body of the POST whose write
\* finished last (never an empty, truncated or mixed text).
C3_LastWriterWins ==
    \A p \in Paths :
        (saved[p].n > 0 /\ NoSaveInFlight(p)) =>
            files[p].data = json_dump(saved[p].body)

\* ---- C4 ----------------------------------------------------------------
\* C4: a step changes the record of a sample only if it is a step of a POST to
\* that very (dataset, index); no GET changes any record.
C4_OneFilePerSample ==
    [][\A p \in Paths :
          files'[p] # files[p] => (last'.method = "POST" /\ last'.target = p)]_vars

\* a POST has succeeded for one sample while the other sample of the same
\* dataset and a sample of the other dataset hold their own records
C4_Witness ==
    /\ last.method = "POST" /\ last.status = "200"
    /\ \E q \in Paths :
        /\ q # last.target /\ q[1] = last.target[1]
        /\ saved[q].n > 0 /\ files[q].data = json_dump(saved[q].body)
        /\ saved[q].body # saved[last.target].body

\* ---- C6 ----------------------------------------------------------------
StoreOperations ==
    {"get_datasets", "get_dataset_samples", "get_single_sample", "get_annotation",
     "save_annotation", "get_annotation_stats"}

\* C6: no exception of a store operation reaches the request handler, and a
\* POST is answered with success only when its annotation was saved.
C6_UniformErrorHandling ==
    /\ last.raisedIn \notin StoreOperations
    /\ (last.method = "POST" /\ last.status = "200") => saved[last.target].n > 0

(***************************************************************************)
(* Read-only viewer (caption_dataset_viewer/viewer.py).  It reads the same *)
(* annotations directory, possibly while the server is writing to it.      *)
(***************************************************************************)

\* A plausible slip: get_single_sample without the completeness test
viewer_get_single_sample_unfiltered(fs, dataset_name, sample_index) ==
    LET f == fs[annotation_file(dataset_name, sample_index)]
        r == json_load(f.data)
    IN IF ~f.exists THEN Ret(JNull)
       ELSE IF r.raised THEN Ret(JNull)
       ELSE Ret([t |-> "sample", annotation |-> r.v])

\* CaptionViewerHandler.is_annotation_complete of viewer.py
viewer_is_annotation_complete(annotation) ==
    IF Falsy(annotation) THEN FALSE
    ELSE
        LET all_ratings_complete ==
                \A i \in 1..Len(required_fields) :
                    Get(annotation, required_fields[i]) # JNull
            segs == Get(annotation, "segments")
            segments_valid ==
                IF ~Falsy(segs) /\ Len(segs.items) > 0
                THEN \A j \in 1..Len(segs.items) :
                        /\ Get(segs.items[j], "startIndex") # JNull
                        /\ Get(segs.items[j], "endIndex") # JNull
                ELSE TRUE
        IN all_ratings_complete /\ segments_valid

\* the sample_*.json files of a dataset directory, each passed through json.load
viewer_load_all(fs, dataset_name) ==
    LET present == {i \in Indices : fs[annotation_file(dataset_name, i)].exists}
    IN [i \in present |-> json_load(fs[annotation_file(dataset_name, i)].data)]

\* get_datasets: the dataset directories with at least one completed
\* annotation and their completed_count; [] when anything raises
viewer_get_datasets(fs, ds) ==
    LET count(d) ==
            Cardinality({i \in DOMAIN viewer_load_all(fs, d) :
                            viewer_is_annotation_complete(viewer_load_all(fs, d)[i].v)})
        shown == {d \in ds : count(d) > 0}
    IN IF \E d \in ds : \E i \in DOMAIN viewer_load_all(fs, d) : viewer_load_all(fs, d)[i].raised
       THEN Ret([t |-> "datasets", completed_count |-> <<>>])
       ELSE Ret([t |-> "datasets", completed_count |-> [d \in shown |-> count(d)]])

\* get_dataset_samples: the completed samples of a dataset, None when the
\* directory is missing or anything raises
viewer_get_dataset_samples(fs, ds, dataset_name) ==
    LET loaded == viewer_load_all(fs, dataset_name)
        done == {i \in DOMAIN loaded : viewer_is_annotation_complete(loaded[i].v)}
    IN IF dataset_name \notin ds THEN Ret(JNull)
       ELSE IF \E i \in DOMAIN loaded : loaded[i].raised THEN Ret(JNull)
       ELSE Ret([t |-> "dataset",
                 samples |-> [i \in done |-> loaded[i].v],
                 total_completed |-> Cardinality(done)])

\* get_single_sample: the annotation when it is complete, None otherwise
viewer_get_single_sample(fs, dataset_name, sample_index) ==
    LET f == fs[annotation_file(dataset_name, sample_index)]
        r == json_load(f.data)
    IN IF ~f.exists THEN Ret(JNull)
       ELSE IF r.raised THEN Ret(JNull)
       ELSE IF ~viewer_is_annotation_complete(r.v) THEN Ret(JNull)
       ELSE Ret([t |-> "sample", annotation |-> r.v])

\* _empty_stats_response of viewer.py
viewer_empty_stats_response ==
    [t |-> "stats", total |-> 0, avg_segments |-> JNull,
     avg_scores |-> [f \in RatingFieldSet |-> JNull]]

\* get_annotation_stats: counts and averages over the completed annotations
viewer_get_annotation_stats(fs, ds, dataset_name) ==
    LET loaded == viewer_load_all(fs, dataset_name)
        done == {i \in DOMAIN loaded : viewer_is_annotation_complete(loaded[i].v)}
        withSegs == {i \in done : ~Falsy(Get(loaded[i].v, "segments"))}
        scored(f) == {i \in done : Get(loaded[i].v, f) # JNull}
    IN IF dataset_name \notin ds THEN Ret(viewer_empty_stats_response)
       ELSE IF \E i \in DOMAIN loaded : loaded[i].raised
       THEN Ret(viewer_empty_stats_response)
       ELSE Ret([t |-> "stats",
                 total |-> Cardinality(done),
                 avg_segments |->
                    Avg(SumOver(withSegs,
                                [i \in withSegs |-> Len(loaded[i].v.m["segments"].items)]),
                        Cardinality(withSegs)),
                 avg_scores |->
                    [f \in RatingFieldSet |->
                        Avg(SumOver(scored(f), [i \in scored(f) |-> loaded[i].v.m[f].n]),
                            Cardinality(scored(f)))]])

\* the record of a viewer response
VStep(endpoint, target, status, body) ==
    [tick |-> 1 - vlast.tick, method |-> "GET", endpoint |-> endpoint,
     target |-> target, status |-> status, raisedIn |-> "none", body |-> body]

\* viewer do_GET, /api/datasets
ViewerGetDatasets ==
    /\ vlast' = VStep("datasets", <<>>, "200", viewer_get_datasets(files, dirs).v)
    /\ UNCHANGED notView

\* viewer do_GET, /api/dataset/<name>
ViewerGetDataset(d) ==
    LET data == viewer_get_dataset_samples(files, dirs, d).v
    IN /\ vlast' = VStep("dataset", <<d>>, IF data # JNull THEN "200" ELSE "404", data)
       /\ UNCHANGED notView

\* viewer do_GET, /api/sample/<name>/<index>
ViewerGetSample(d, i) ==
    LET data == viewer_get_single_sample(files, d, i).v
    IN /\ vlast' = VStep("sample", <<d, i>>, IF data # JNull THEN "200" ELSE "404", data)
       /\ UNCHANGED notView

\* viewer do_GET, /api/stats/<name>
ViewerGetStats(d) ==
    /\ vlast' = VStep("stats", <<d>>, "200", viewer_get_annotation_stats(files, dirs, d).v)
    /\ UNCHANGED notView

\* the viewer answering requests while the server saves annotations
ViewerNext ==
    \/ ViewerGetDatasets
    \/ \E d \in Datasets : ViewerGetDataset(d)
    \/ \E d \in Datasets, i \in Indices : ViewerGetSample(d, i)
    \/ \E d \in Datasets : ViewerGetStats(d)
    \/ \E t \in Threads, d \in Datasets, i \in Indices, b \in PostBodies : PostOpen(t, d, i, b)
    \/ \E t \in Threads : SaveFlush(t)
    \/ \E t \in Threads : SaveClose(t)

\* ---- C5 ----------------------------------------------------------------
\* the stored annotation of a sample when its file parses, None otherwise
Stored(fs, d, i) ==
    IF fs[<<d, i>>].exists /\ ~json_load(fs[<<d, i>>].data).raised
    THEN json_load(fs[<<d, i>>].data).v
    ELSE JNull

\* completeness as the specification words it
IsCompleteRecord(a) ==
    /\ a.t = "dict"
    /\ SixRatingsSet(a)
    /\ HasSegmentList(a) =>
        \A j \in 1..Len(a.m["segments"].items) : SegmentHasIndices(a.m["segments"].items[j])

\* the samples of a dataset whose annotation is complete
CompleteIn(fs, d) == {i \in Indices : IsCompleteRecord(Stored(fs, d, i))}

\* the values of a rating field over the complete annotations of a dataset
CompleteScores(fs, d, f) == [i \in CompleteIn(fs, d) |-> Stored(fs, d, i).m[f].n]

ViewerShowsCompletedOnly(r, fs) ==
    /\ r.endpoint = "datasets" =>
        \A d \in DOMAIN r.body.completed_count :
            /\ CompleteIn(fs, d) # {}
            /\ r.body.completed_count[d] = Cardinality(CompleteIn(fs, d))
    /\ r.endpoint = "dataset" =>
        \/ r.status = "404"
        \/ /\ DOMAIN r.body.samples \subseteq CompleteIn(fs, r.target[1])
           /\ \A i \in DOMAIN r.body.samples : r.body.samples[i] = Stored(fs, r.target[1], i)
           /\ r.body.total_completed = Cardinality(DOMAIN r.body.samples)
    /\ r.endpoint = "sample" =>
        /\ r.target[2] \notin CompleteIn(fs, r.target[1]) => r.status = "404"
        /\ r.status = "200" => r.body.annotation = Stored(fs, r.target[1], r.target[2])
    /\ r.endpoint = "stats" =>
        \/ r.body = viewer_empty_stats_response
        \/ /\ r.body.total = Cardinality(CompleteIn(fs, r.target[1]))
           /\ \A f \in RatingFieldSet :
                r.body.avg_scores[f] =
                    Avg(SumOver(CompleteIn(fs, r.target[1]), CompleteScores(fs, r.target[1], f)),
                        Cardinality(CompleteIn(fs, r.target[1])))

\* C5: every response of the viewer exposes completed annotations only, whatever
\* the annotations directory holds when the request is served: /api/datasets
\* lists only datasets with a complete annotation, with their exact count;
\* /api/dataset returns complete samples only; /api/sample answers 404 for a
\* missing or incomplete annotation; /api/stats counts and averages complete
\* annotations only.
C5_ViewerCompletedOnly ==
    [][vlast'.tick # vlast.tick => ViewerShowsCompletedOnly(vlast', files')]_vars

\* the viewer returned one completed sample of a dataset whose other sample
\* holds an incomplete annotation
C5_Witness ==
    /\ vlast.endpoint = "dataset" /\ vlast.status = "200"
    /\ DOMAIN vlast.body.samples = {0}
    /\ Stored(files, vlast.target[1], 1) = BodyBadSegment
(***************************************************************************)
(* LLM response parsing (global_edit_detection.py,                         *)
(* camera_angle_order_swap_detection.py).  A text is a sequence of         *)
(* lexemes: the two markers, the words Yes/No in both cases, another word, *)
(* a full stop, a space and a line break.  The string operations of the    *)
(* code (strip, find, slicing, split('\n')[0], replace, lower, in) are     *)
(* carried out on these sequences.                                         *)
(***************************************************************************)
rationale_marker == "Rationale:"
classification_marker == "Classification:"
Lexemes == {rationale_marker, classification_marker, "Yes", "No", "yes", "no",
            "word", ".", " ", "\n"}
Whitespace == {" ", "\n"}

MaxTextLen == 4
Texts(n) == SeqsUpTo(Lexemes, n)

\* what llm.generate(prompt) does
LLMOutputs(n) ==
    {[kind |-> "raise", text |-> <<>>], [kind |-> "none", text |-> <<>>]}
    \cup {[kind |-> "text", text |-> s] : s \in Texts(n)}

RECURSIVE LStrip(_)
LStrip(s) == IF s # <<>> /\ Head(s) \in Whitespace THEN LStrip(Tail(s)) ELSE s

RECURSIVE RStrip(_)
RStrip(s) ==
    IF s # <<>> /\ s[Len(s)] \in Whitespace THEN RStrip(SubSeq(s, 1, Len(s) - 1)) ELSE s

\* str.strip()
Strip(s) == RStrip(LStrip(s))

\* str.find(marker): the position of its first occurrence counted from 1, 0 for
\* Python's -1
Find(s, marker) ==
    IF \E i \in 1..Len(s) : s[i] = marker
    THEN CHOOSE i \in 1..Len(s) : s[i] = marker /\ \A j \in 1..(i - 1) : s[j] # marker
    ELSE 0

\* s.split('\n')[0]
FirstLine(s) ==
    IF Find(s, "\n") = 0 THEN s ELSE SubSeq(s, 1, Find(s, "\n") - 1)

\* s.replace('.', '').replace(',', '')
DropStops(s) == SelectSeq(s, LAMBDA x : x # ".")

LowerLexeme(x) ==
    CASE x = "Yes" -> "yes"
      [] x = "Hip Angle" -> "hip angle"
      [] x = "Mostly Static" -> "mostly static"
      [] x = "No" -> "no"
      [] x = rationale_marker -> "rationale:"
      [] x = classification_marker -> "classification:"
      [] OTHER -> x

\* str.lower()
Lower(s) == [i \in 1..Len(s) |-> LowerLexeme(s[i])]

\* sub in s
Contains(s, sub) ==
    \E i \in 0..(Len(s) - Len(sub)) : SubSeq(s, i + 1, i + Len(sub)) = sub

\* the lines of s.split('\n')
RECURSIVE Lines(_)
Lines(s) ==
    IF Find(s, "\n") = 0 THEN {s}
    ELSE {SubSeq(s, 1, Find(s, "\n") - 1)} \cup Lines(SubSeq(s, Find(s, "\n") + 1, Len(s)))

\* the first line of s.split('\n') whose strip().lower() is yes or no,
\* capitalized; "" when there is none
RECURSIVE FirstYesNoLine(_)
FirstYesNoLine(s) ==
    LET line_clean == Lower(Strip(FirstLine(s)))
    IN IF line_clean = <<"yes">> THEN "Yes"
       ELSE IF line_clean = <<"no">> THEN "No"
       ELSE IF Find(s, "\n") = 0 THEN ""
       ELSE FirstYesNoLine(SubSeq(s, Find(s, "\n") + 1, Len(s)))

Result(fn, label, rationale, raw_response) ==
    [fn |-> fn, label |-> label, rationale |-> rationale, raw_response |-> raw_response]

\* the Rationale / Classification parse both classifiers start with
Between(raw_response) ==
    Strip(SubSeq(raw_response, Find(raw_response, rationale_marker) + 1,
                 Find(raw_response, classification_marker) - 1))
AfterClassification(raw_response) ==
    Strip(FirstLine(Strip(SubSeq(raw_response,
                                 Find(raw_response, classification_marker) + 1,
                                 Len(raw_response)))))

\* A plausible slip: the classification is read although "Rationale:" is missing
classify_global_edit_one_marker(out) ==
    IF out.kind # "text"
    THEN Result("global_edit", "Unexpected", <<"Error:">>, <<"error">>)
    ELSE
        LET raw_response == Strip(out.text)
            classification_idx == Find(raw_response, classification_marker)
            found == classification_idx # 0
            rationale == IF found THEN Between(raw_response) ELSE <<>>
            classification == IF found THEN AfterClassification(raw_response) ELSE <<>>
        IN IF classification \in {<<"Yes">>, <<"No">>}
           THEN Result("global_edit", classification[1], rationale, raw_response)
           ELSE Result("global_edit", "Unexpected", rationale, raw_response)

\* classify_global_edit from llm.generate on: an exception of generate, or of
\* response.strip() on None, gives ("Unexpected", "Error: ...", str(e))
classify_global_edit(out) ==
    IF out.kind # "text"
    THEN Result("global_edit", "Unexpected", <<"Error:">>, <<"error">>)
    ELSE
        LET raw_response == Strip(out.text)
            rationale_idx == Find(raw_response, rationale_marker)
            classification_idx == Find(raw_response, classification_marker)
            found == rationale_idx # 0 /\ classification_idx # 0
            rationale == IF found THEN Between(raw_response) ELSE <<>>
            classification == IF found THEN AfterClassification(raw_response) ELSE <<>>
        IN IF classification \in {<<"Yes">>, <<"No">>}
           THEN Result("global_edit", classification[1], rationale, raw_response)
           ELSE Result("global_edit", "Unexpected", rationale, raw_response)

\* classify_feedback_introduces_wrong_terminology from llm.generate on
classify_feedback_introduces_wrong_terminology(out) ==
    IF out.kind = "raise"
    THEN Result("camera", "Unexpected", <<"LLM Error:">>, <<"error">>)
    ELSE IF out.kind = "none"
    THEN Result("camera", "Unexpected", <<"Error:">>, <<"error">>)
    ELSE
        LET raw_response == Strip(out.text)
            rationale_idx == Find(raw_response, rationale_marker)
            classification_idx == Find(raw_response, classification_marker)
            found == rationale_idx # 0 /\ classification_idx # 0
            raw_lower == Lower(raw_response)
            fallback ==
                IF \/ Contains(raw_lower, <<"classification:", " ", "yes">>)
                   \/ Lower(Strip(raw_response)) = <<"yes">>
                THEN "Yes"
                ELSE IF \/ Contains(raw_lower, <<"classification:", " ", "no">>)
                        \/ Lower(Strip(raw_response)) = <<"no">>
                THEN "No"
                ELSE FirstYesNoLine(raw_response)
            classification ==
                IF found THEN Strip(DropStops(AfterClassification(raw_response)))
                ELSE IF fallback # "" THEN <<fallback>> ELSE <<>>
            rationale ==
                IF found THEN Between(raw_response)
                ELSE IF fallback # "" THEN raw_response ELSE <<>>
        IN IF classification \in {<<"Yes">>, <<"No">>}
           THEN Result("camera", classification[1], rationale, raw_response)
           ELSE Result("camera", "Unexpected",
                       <<"Could not parse:">> \o raw_response, raw_response)

NotClassified == Result("none", "", <<>>, <<>>)
ParseIdle == llmOut = [kind |-> "raise", text |-> <<>>] /\ cls = NotClassified
ParseInit == llmOut \in LLMOutputs(MaxTextLen) /\ cls = NotClassified

\* global_edit_detection.py classifies the response
ClassifyGlobalEdit ==
    /\ cls = NotClassified
    /\ cls' = classify_global_edit(llmOut)
    /\ UNCHANGED <<llmOut, notParse>>

\* camera_angle_order_swap_detection.py classifies the response
ClassifyWrongTerminology ==
    /\ cls = NotClassified
    /\ cls' = classify_feedback_introduces_wrong_terminology(llmOut)
    /\ UNCHANGED <<llmOut, notParse>>
Labels == {"Yes", "No", "Unexpected"}
BothMarkers(raw) ==
    Find(raw, rationale_marker) # 0 /\ Find(raw, classification_marker) # 0

\* the two-marker rule: both markers are there, the first line after
\* "Classification:" is the label, the rationale is the text between the markers
StrictlyParsed(raw, label, rationale) ==
    /\ BothMarkers(raw)
    /\ AfterClassification(raw) = <<label>>
    /\ rationale = Between(raw)

\* the word appears as "classification: <word>" or alone on a line, in any case
LooselyNamed(raw, word) ==
    \/ Contains(Lower(raw), <<"classification:", " ", word>>)
    \/ \E line \in Lines(raw) : Lower(Strip(line)) = <<word>>

\* C7 as stated: every classifier returns a label in {Yes, No, Unexpected};
\* it returns Yes or No only when the first line after the "Classification:"
\* marker is exactly that word and both markers are present, the rationale
\* being the text between the markers; otherwise, and when the LLM call
\* fails, it returns Unexpected.
C7_StrictParsing ==
    cls.fn # "none" =>
        /\ cls.label \in Labels
        /\ llmOut.kind # "text" => cls.label = "Unexpected"
        /\ cls.label \in {"Yes", "No"} =>
               StrictlyParsed(Strip(llmOut.text), cls.label, cls.rationale)

\* C7 (amended): every classifier returns a label in {Yes, No, Unexpected} and
\* Unexpected when the LLM call fails.  classify_global_edit returns Yes or No
\* exactly when both markers are present and the first line after
\* "Classification:" is that word, with the rationale between the markers.
\* classify_feedback_introduces_wrong_terminology is more lenient: with both
\* markers it drops full stops and commas from that first line before
\* comparing; with a marker missing it still returns Yes or No when the
\* response contains "classification: yes/no" or has a line that is yes/no in
\* any case, and then the rationale is the whole response.  Every other
\* response gives Unexpected.
C7_ParsingPerClassifier ==
    cls.fn # "none" =>
        LET raw == Strip(llmOut.text)
            strictYesNo == BothMarkers(raw) /\ AfterClassification(raw) \in {<<"Yes">>, <<"No">>}
            cleaned == Strip(DropStops(AfterClassification(raw)))
            lenientYesNo ==
                IF BothMarkers(raw) THEN cleaned \in {<<"Yes">>, <<"No">>}
                ELSE LooselyNamed(raw, "yes") \/ LooselyNamed(raw, "no")
        IN
        /\ cls.label \in Labels
        /\ llmOut.kind # "text" => cls.label = "Unexpected"
        /\ (cls.fn = "global_edit" /\ llmOut.kind = "text") =>
              /\ cls.label \in {"Yes", "No"} <=> strictYesNo
              /\ cls.label \in {"Yes", "No"} => StrictlyParsed(raw, cls.label, cls.rationale)
        /\ (cls.fn = "camera" /\ llmOut.kind = "text") =>
              /\ cls.label \in {"Yes", "No"} <=> lenientYesNo
              /\ (cls.label \in {"Yes", "No"} /\ BothMarkers(raw)) =>
                    cleaned = <<cls.label>> /\ cls.rationale = Between(raw)
              /\ (cls.label \in {"Yes", "No"} /\ ~BothMarkers(raw)) =>
                    /\ cls.rationale = raw
                    /\ LooselyNamed(raw, LowerLexeme(cls.label))

\* the lenient classifier has answered Yes to a response without "Rationale:"
C7_Witness ==
    /\ cls.fn = "camera"
    /\ cls.label = "Yes"
    /\ llmOut.kind = "text"
    /\ Find(llmOut.text, rationale_marker) = 0
    /\ cls.rationale = Strip(llmOut.text)
(***************************************************************************)
(* The ThreadPoolExecutor block of main() (global_edit_detection.py,       *)
(* camera_angle_order_swap_detection.py): every sample is submitted, the   *)
(* workers run classify_sample_worker in any order, main() collects the    *)
(* futures as they complete, and the files are written after the block.    *)
(***************************************************************************)
MaxSamples == 3
MaxWorkers == 2
SampleIds == 1..MaxSamples
Scripts == {"global_edit", "camera"}

\* the responses a worker's llm.generate may give
PoolResponses ==
    { [kind |-> "raise", text |-> <<>>],
      [kind |-> "none", text |-> <<>>],
      [kind |-> "text", text |-> <<rationale_marker, "word", classification_marker, "Yes">>],
      [kind |-> "text", text |-> <<rationale_marker, "word", classification_marker, "No">>],
      [kind |-> "text", text |-> <<"word">>] }

\* a sample as extract_samples_from_export returns it: no label keys yet.
\* samples[i] is the i-th sample dict (label, has_rationale, has_raw_response,
\* and by, the workers that have written to it) together with slot, the dict
\* that position i of the samples list refers to.
Unlabelled ==
    [label |-> "", has_rationale |-> FALSE, has_raw_response |-> FALSE, slot |-> 0, by |-> {}]
NoResponse == [kind |-> "unasked", text |-> <<>>]
\* a future: arg is the dict it was submitted with, out what llm.generate gave
\* its worker, calls the number of llm.generate calls, submits the number of
\* executor.submit calls for its index
NoFuture ==
    [st |-> "none", exc |-> FALSE, seen |-> FALSE, arg |-> 0, out |-> NoResponse,
     calls |-> 0, submits |-> 0]
NotWritten == [written |-> FALSE, entries |-> <<>>]
NoReport == [written |-> FALSE, total |-> 0, yes_count |-> 0, no_count |-> 0,
             unexpected_count |-> 0]

PoolIdle ==
    /\ pool = [pc |-> "idle", script |-> "global_edit", n |-> 0]
    /\ fut = [i \in SampleIds |-> NoFuture]
    /\ samples = [i \in SampleIds |-> [Unlabelled EXCEPT !.slot = i]]
    /\ outfiles = [sampled_data |-> NotWritten, report |-> NoReport]

PoolInit ==
    /\ pool \in [pc : {"start"}, script : Scripts, n : 0..MaxSamples]
    /\ fut = [i \in SampleIds |-> NoFuture]
    /\ samples = [i \in SampleIds |-> [Unlabelled EXCEPT !.slot = i]]
    /\ outfiles = [sampled_data |-> NotWritten, report |-> NoReport]

\* the classifier of the running script
classify(script, out) ==
    IF script = "global_edit" THEN classify_global_edit(out)
    ELSE classify_feedback_introduces_wrong_terminology(out)

\* classify_sample_worker: the three keys are set on the sample
classify_sample_worker(sample, script, out) ==
    [sample EXCEPT !.label = classify(script, out).label,
                   !.has_rationale = TRUE,
                   !.has_raw_response = TRUE]

\* A plausible slip: the except branch only prints the error
mark_unexpected_skipped(sample) == sample

\* the except branch of the collecting loop
mark_unexpected(sample) ==
    [sample EXCEPT !.label = "Unexpected", !.has_rationale = TRUE, !.has_raw_response = TRUE]

\* A plausible slip: every task is submitted with the first sample
submitted_sample_first(idx) == samples[1].slot

\* the sample of  executor.submit(classify_sample_worker, sample, ...)  in
\* for idx, sample in enumerate(samples)
submitted_sample(idx) == samples[idx].slot

\* future_to_index[future]
future_to_index(i) == i

\* A plausible slip: a task whose worker raised goes back to the queue
after_exception_requeue(f) == [f EXCEPT !.st = "queued", !.submits = @ + 1]

\* the future of a worker that raised: done, result() will re-raise
after_exception(f) == [f EXCEPT !.st = "done", !.exc = TRUE]

\* for idx, sample in enumerate(samples): executor.submit(...)
SubmitAll ==
    /\ pool.pc = "start"
    /\ pool' = [pool EXCEPT !.pc = "running"]
    /\ fut' = [i \in SampleIds |->
                   IF i <= pool.n
                   THEN [NoFuture EXCEPT !.st = "queued", !.arg = submitted_sample(i),
                                         !.submits = 1]
                   ELSE NoFuture]
    /\ UNCHANGED <<samples, outfiles, notPool>>

\* a free worker thread takes a queued task
WorkerStart ==
    \E i \in SampleIds :
        /\ fut[i].st = "queued"
        /\ Cardinality({j \in SampleIds : fut[j].st = "running"}) < MaxWorkers
        /\ fut' = [fut EXCEPT ![i].st = "running"]
        /\ UNCHANGED <<pool, samples, outfiles, notPool>>

\* the worker returns: the classifier gave a triple, whatever llm.generate did,
\* and classify_sample_worker has set it on the sample (the dict of the list)
WorkerReturn ==
    \E i \in SampleIds, out \in PoolResponses :
        /\ fut[i].st = "running"
        /\ samples' = [samples EXCEPT ![fut[i].arg] =
                           [classify_sample_worker(samples[fut[i].arg], pool.script, out)
                               EXCEPT !.by = @ \cup {i}]]
        /\ fut' = [fut EXCEPT ![i].st = "done", ![i].out = out, ![i].calls = @ + 1]
        /\ UNCHANGED <<pool, outfiles, notPool>>

\* the worker raises: get_llm is called before the try of the classifier
WorkerRaise ==
    \E i \in SampleIds :
        /\ fut[i].st = "running"
        /\ fut' = [fut EXCEPT ![i] = after_exception(fut[i])]
        /\ UNCHANGED <<pool, samples, outfiles, notPool>>

\* one turn of  for future in as_completed(future_to_index)
Collect ==
    \E i \in SampleIds :
        /\ pool.pc = "running"
        /\ fut[i].st = "done"
        /\ ~fut[i].seen
        /\ fut' = [fut EXCEPT ![i].seen = TRUE]
        /\ LET idx == future_to_index(i)
               o == samples[idx].slot
           IN samples' = IF fut[i].exc
                         THEN [samples EXCEPT ![o] = mark_unexpected(samples[o])]
                         ELSE [samples EXCEPT ![idx].slot = fut[i].arg]
        /\ UNCHANGED <<pool, outfiles, notPool>>

\* as_completed is exhausted and the with block exits (shutdown(wait=True))
ExitBlock ==
    /\ pool.pc = "running"
    /\ \A i \in SampleIds : i <= pool.n => fut[i].seen
    /\ \A i \in SampleIds : fut[i].st \notin {"queued", "running"}
    /\ pool' = [pool EXCEPT !.pc = "exited"]
    /\ UNCHANGED <<fut, samples, outfiles, notPool>>

\* sampled_data.jsonl: one line per sample
SaveSampledData ==
    /\ pool.pc = "exited"
    /\ pool' = [pool EXCEPT !.pc = "saved"]
    /\ outfiles' = [outfiles EXCEPT !.sampled_data =
                        [written |-> TRUE,
                         entries |-> [i \in 1..pool.n |-> samples[samples[i].slot]]]]
    /\ UNCHANGED <<fut, samples, notPool>>

CountLabel(n, label) == Cardinality({i \in 1..n : samples[samples[i].slot].label = label})

\* generate_report: the counts of the statistics table
generate_report(n) ==
    [written |-> TRUE, total |-> n, yes_count |-> CountLabel(n, "Yes"),
     no_count |-> CountLabel(n, "No"), unexpected_count |-> CountLabel(n, "Unexpected")]

GenerateReport ==
    /\ pool.pc = "saved"
    /\ pool' = [pool EXCEPT !.pc = "reported"]
    /\ outfiles' = [outfiles EXCEPT !.report = generate_report(pool.n)]
    /\ UNCHANGED <<fut, samples, notPool>>

PoolNext ==
    \/ SubmitAll
    \/ WorkerStart
    \/ WorkerReturn
    \/ WorkerRaise
    \/ Collect
    \/ ExitBlock
    \/ SaveSampledData
    \/ GenerateReport

Labelled(sample) ==
    /\ sample.label \in Labels
    /\ sample.has_rationale
    /\ sample.has_raw_response

\* C8: once the ThreadPoolExecutor block has exited, every sample has label,
\* rationale and raw_response with a label in {Yes, No, Unexpected}, whatever
\* the order of completion, and a sample whose worker raised is Unexpected;
\* nothing is written while a future is outstanding; sampled_data.jsonl has one
\* entry per sample and the report's yes + no + unexpected counts add up to
\* the number of samples.
C8_AllLabelled ==
    /\ pool.pc \in {"exited", "saved", "reported"} =>
           \A i \in 1..pool.n :
               /\ fut[i].st = "done"
               /\ Labelled(samples[i])
               /\ fut[i].exc => samples[i].label = "Unexpected"
    /\ pool.pc \in {"start", "running", "exited"} =>
           ~outfiles.sampled_data.written /\ ~outfiles.report.written
    /\ outfiles.sampled_data.written =>
           /\ Len(outfiles.sampled_data.entries) = pool.n
           /\ \A i \in 1..pool.n : outfiles.sampled_data.entries[i] = samples[i]
    /\ outfiles.report.written =>
           /\ outfiles.sampled_data.written
           /\ outfiles.report.total = pool.n
           /\ outfiles.report.yes_count + outfiles.report.no_count
                  + outfiles.report.unexpected_count = pool.n

\* a run with a worker that raised and one that answered Yes has been reported
C8_Witness ==
    /\ pool.pc = "reported"
    /\ pool.n >= 2
    /\ \E i \in 1..pool.n : fut[i].exc
    /\ \E i \in 1..pool.n : ~fut[i].exc /\ samples[i].label = "Yes"
    /\ outfiles.report.unexpected_count >= 1

\* the label the sample of future i has to end with, read off what happened
\* to its own worker: Unexpected when the worker raised, the call failed or
\* the response does not end in a Yes or No classification
OwnLabel(i) ==
    IF fut[i].exc \/ fut[i].out.kind # "text" THEN "Unexpected"
    ELSE LET text == fut[i].out.text
         IN IF text[Len(text)] \in {"Yes", "No"} THEN text[Len(text)] ELSE "Unexpected"

Submitted == {i \in SampleIds : fut[i].submits > 0}
BlockExited == pool.pc \in {"exited", "saved", "reported"}

\* C15: each worker writes only to the sample dict it was submitted with, no
\* two workers are submitted with or write the same dict, no two positions of
\* the samples list refer to the same dict, and once the block has exited
\* position i of the list holds the dict submitted at position i, labelled
\* with the classification of its own response, whatever the order in which
\* the futures completed.
C15_NoSharedWriteTarget ==
    /\ \A i \in SampleIds : samples[i].by \subseteq {i}
    /\ \A i, j \in Submitted : i # j => fut[i].arg # fut[j].arg
    /\ \A i, j \in SampleIds : i # j => samples[i].slot # samples[j].slot
    /\ BlockExited =>
           \A i \in 1..pool.n :
               /\ fut[i].arg = i
               /\ samples[i].slot = i
               /\ samples[samples[i].slot].label = OwnLabel(i)

\* the second sample was classified and collected while the first was still
\* with its worker
C15_Witness ==
    /\ pool.pc = "running"
    /\ fut[1].st = "running"
    /\ fut[2].seen
    /\ samples[2].by = {2}
    /\ samples[2].label = "Yes"
    /\ samples[1].by = {}

\* C16: every sample is submitted to the executor exactly once and llm.generate
\* is called at most once for it; once the block has exited every future has
\* completed (none was cancelled), a sample whose worker raised, whose call
\* failed or whose response could not be parsed is Unexpected, and every other
\* sample has the Yes or No of its own response, whatever happened to the
\* other samples.
C16_NoRetryNoCancel ==
    /\ \A i \in SampleIds : fut[i].submits <= 1 /\ fut[i].calls <= 1
    /\ pool.pc \notin {"idle", "start"} => Submitted = 1..pool.n
    /\ \A i \in SampleIds : fut[i].seen => fut[i].st = "done"
    /\ BlockExited =>
           \A i \in 1..pool.n :
               /\ fut[i].st = "done"
               /\ fut[i].seen
               /\ samples[i].label = OwnLabel(i)

\* a run where one worker raised, one response could not be parsed and one
\* sample was answered Yes
C16_Witness ==
    /\ BlockExited
    /\ \E i \in 1..pool.n : fut[i].exc /\ fut[i].calls = 0 /\ samples[i].label = "Unexpected"
    /\ \E i \in 1..pool.n :
           /\ fut[i].out = [kind |-> "text", text |-> <<"word">>]
           /\ samples[i].label = "Unexpected"
    /\ \E i \in 1..pool.n : fut[i].calls = 1 /\ samples[i].label = "Yes"
(***************************************************************************)
(* MergedCaptionAPI.merge (merged_caption_api.py).  The captions argument  *)
(* is given by its keys; get_llm succeeds or raises; llm.generate raises,  *)
(* returns None or returns a text of words, blanks, line breaks and code   *)
(* fences.                                                                 *)
(***************************************************************************)
REQUIRED_KEYS == <<"subject", "scene", "motion", "spatial", "camera">>
CaptionKeys == {"subject", "Subject", "scene", "motion", "spatial", "Camera", "other"}

\* k.lower()
lower_key(k) ==
    CASE k = "Subject" -> "subject"
      [] k = "Camera" -> "camera"
      [] OTHER -> k

\* the lexeme of a markdown code fence (three backticks)
fence == "fence"
ResponseLexemes == {fence, "word", " ", "\n"}
MaxResponseLen == 3
Responses(n) ==
    {[kind |-> "raise", text |-> <<>>], [kind |-> "none", text |-> <<>>]}
    \cup {[kind |-> "text", text |-> s] : s \in SeqsUpTo(ResponseLexemes, n)}

None == JNull
PyStr(s) == [t |-> "str", v |-> s]

MergeResult(success, merged_caption, error_message, word_count, token_count) ==
    [success |-> success, merged_caption |-> merged_caption,
     error_message |-> error_message, word_count |-> word_count,
     token_count |-> token_count]

\* len(text.split()): the number of maximal runs without whitespace
count_words(text) ==
    Cardinality({i \in 1..Len(text) :
                    text[i] \notin Whitespace /\ (i = 1 \/ text[i - 1] \in Whitespace)})

\* int(len(text.split()) / 0.75)
count_tokens(text) == (count_words(text) * 4) \div 3

\* the position of the last line break, 0 when there is none
LastBreak(s) ==
    IF \E i \in 1..Len(s) : s[i] = "\n"
    THEN CHOOSE i \in 1..Len(s) : s[i] = "\n" /\ \A j \in (i + 1)..Len(s) : s[j] # "\n"
    ELSE 0

\* clean_response: a response that starts with a code fence loses its first
\* line and, when it is a lone fence, its last line
clean_response(response) ==
    LET stripped == Strip(response)
        rest == IF Find(stripped, "\n") = 0 THEN [lines |-> 0, text |-> <<>>]
                ELSE [lines |-> 1,
                      text |-> SubSeq(stripped, Find(stripped, "\n") + 1, Len(stripped))]
        last_line == SubSeq(rest.text, LastBreak(rest.text) + 1, Len(rest.text))
        kept == IF rest.lines = 0 THEN <<>>
                ELSE IF Strip(last_line) = <<fence>>
                THEN (IF LastBreak(rest.text) = 0 THEN <<>>
                      ELSE SubSeq(rest.text, 1, LastBreak(rest.text) - 1))
                ELSE rest.text
    IN IF stripped # <<>> /\ Head(stripped) = fence THEN Strip(kept) ELSE stripped

Failure(error_message) == MergeResult(FALSE, None, error_message, 0, 0)
Returned(result, calls) == [raised |-> FALSE, result |-> result, generate_calls |-> calls]
Raised(calls) == [raised |-> TRUE, result |-> None, generate_calls |-> calls]

\* A plausible slip: get_llm is called outside the try
merge_init_uncaught(keys, llm, response) ==
    LET captions == {lower_key(k) : k \in keys}
        missing == SelectSeq(REQUIRED_KEYS, LAMBDA k : k \notin captions)
    IN IF missing # <<>>
       THEN Returned(Failure([kind |-> "Missing required captions", missing |-> missing]), 0)
       ELSE IF llm = "raise" THEN Raised(0)
       ELSE IF response.kind = "raise"
       THEN Returned(Failure([kind |-> "exception", missing |-> <<>>]), 1)
       ELSE IF response.kind = "none" \/ response.text = <<>> \/ Strip(response.text) = <<>>
       THEN Returned(Failure([kind |-> "LLM returned empty response", missing |-> <<>>]), 1)
       ELSE Returned(MergeResult(TRUE, PyStr(clean_response(response.text)), None,
                                 count_words(clean_response(response.text)),
                                 count_tokens(clean_response(response.text))), 1)

\* MergedCaptionAPI.merge
merge(keys, llm, response) ==
    LET captions == {lower_key(k) : k \in keys}
        missing == SelectSeq(REQUIRED_KEYS, LAMBDA k : k \notin captions)
    IN IF missing # <<>>
       THEN Returned(Failure([kind |-> "Missing required captions", missing |-> missing]), 0)
       ELSE IF llm = "raise"
       THEN Returned(Failure([kind |-> "Failed to initialize LLM", missing |-> <<>>]), 0)
       ELSE IF response.kind = "raise"
       THEN Returned(Failure([kind |-> "exception", missing |-> <<>>]), 1)
       ELSE IF response.kind = "none" \/ response.text = <<>> \/ Strip(response.text) = <<>>
       THEN Returned(Failure([kind |-> "LLM returned empty response", missing |-> <<>>]), 1)
       ELSE Returned(MergeResult(TRUE, PyStr(clean_response(response.text)), None,
                                 count_words(clean_response(response.text)),
                                 count_tokens(clean_response(response.text))), 1)

NotMerged == [done |-> FALSE, out |-> Raised(0)]
MergeIdle ==
    /\ mergeIn = [keys |-> {}, llm |-> "ok", response |-> [kind |-> "none", text |-> <<>>]]
    /\ mergeOut = NotMerged
MergeInit ==
    /\ mergeIn \in [keys : SUBSET CaptionKeys, llm : {"ok", "raise"}, response : Responses(MaxResponseLen)]
    /\ mergeOut = NotMerged

\* api.merge(captions)
Merge ==
    /\ ~mergeOut.done
    /\ mergeOut' = [done |-> TRUE,
                    out |-> merge(mergeIn.keys, mergeIn.llm, mergeIn.response)]
    /\ UNCHANGED <<mergeIn, notMerge>>

\* the required keys no key of the captions equals, whatever its case
MissingKeys ==
    {k \in {"subject", "scene", "motion", "spatial", "camera"} :
        \A key \in mergeIn.keys : key # k /\ ~(key = "Subject" /\ k = "subject")
                                          /\ ~(key = "Camera" /\ k = "camera")}

\* C9: merge never raises and returns a MergeResult; with a required key
\* missing (keys compared without case) it fails, names the missing keys and
\* does not call the LLM; it fails when get_llm or generate raises or the
\* response is empty or whitespace; a failure has merged_caption None and both
\* counts 0; a success has a merged_caption that is not None and no error
\* message.
C9_MergeResultContract ==
    mergeOut.done =>
        LET out == mergeOut.out
            r == out.result
        IN
        /\ ~out.raised
        /\ r.success \in BOOLEAN
        /\ MissingKeys # {} =>
               /\ ~r.success
               /\ r.error_message.kind = "Missing required captions"
               /\ {r.error_message.missing[i] : i \in 1..Len(r.error_message.missing)} = MissingKeys
               /\ out.generate_calls = 0
        /\ (\/ mergeIn.llm = "raise"
            \/ mergeIn.response.kind # "text"
            \/ \A i \in 1..Len(mergeIn.response.text) : mergeIn.response.text[i] \in Whitespace)
               => ~r.success
        /\ ~r.success => r.merged_caption = None /\ r.word_count = 0 /\ r.token_count = 0
                         /\ r.error_message # None
        /\ r.success => r.merged_caption # None /\ r.error_message = None
                        /\ MissingKeys = {} /\ out.generate_calls = 1

\* a merge succeeded although subject and camera were given capitalised only
C9_Witness ==
    /\ mergeOut.done
    /\ mergeOut.out.result.success
    /\ "subject" \notin mergeIn.keys
    /\ mergeOut.out.result.word_count >= 1

(***************************************************************************)
(* extract_samples_from_export (global_edit_detection.py).  The export is  *)
(* the list of its caption entries, in the order the loops visit them.     *)
(***************************************************************************)
MaxCaptions == 2
ExtractScripts == {"global_edit", "camera", "mostly_static"}
Statuses == {"approved", "rejected", "in_progress"}
FeedbackValues == {None, PyStr(<<" ">>), PyStr(<<"word">>), JNum(0)}
ScoreValues == {None, JNum(3), JNum(4)}
CameraCaptions ==
    {PyStr(<<"word">>), PyStr(<<"eye-level angle">>), PyStr(<<"word", " ", "Hip Angle">>)}
NoCaptionData == [present |-> FALSE, feedback_is_needed |-> TRUE,
                  final_feedback |-> None, initial_caption_rating_score |-> None,
                  pre_caption |-> PyStr(<<"word">>), final_caption |-> PyStr(<<"word">>)]

\* the caption_data dicts each script is run on; the fields a script does not
\* look at are held fixed
CaptionDatas(script) ==
    {NoCaptionData}
    \cup (CASE script = "global_edit" ->
                 [present : {TRUE}, feedback_is_needed : BOOLEAN,
                  final_feedback : FeedbackValues, initial_caption_rating_score : ScoreValues,
                  pre_caption : {PyStr(<<"word">>)}, final_caption : {PyStr(<<"word">>)}]
            [] script = "camera" ->
                 [present : {TRUE}, feedback_is_needed : BOOLEAN,
                  final_feedback : {None, PyStr(<<"word">>)},
                  initial_caption_rating_score : {None},
                  pre_caption : CameraCaptions, final_caption : {PyStr(<<"word">>)}]
            [] script = "mostly_static" ->
                 [present : {TRUE}, feedback_is_needed : {TRUE},
                  final_feedback : {PyStr(<<"word">>)},
                  initial_caption_rating_score : {None, JNum(4), JNum(5)},
                  pre_caption : {PyStr(<<"word">>)},
                  final_caption : {None, PyStr(<<" ">>), PyStr(<<"word">>)}])
CaptionEntries(script) == [status : Statuses, caption_data : CaptionDatas(script)]
ExportDatas(script, n) == SeqsUpTo(CaptionEntries(script), n)
\* --sample-count is any integer (argparse type=int)
SampleCounts == (0 - 2)..(MaxCaptions + 1)

\* a text field as the statistics pass normalises it: None becomes '', a
\* value that is not a string becomes its str(), and the result is stripped
normalised_feedback(final_feedback) ==
    IF final_feedback = None THEN <<>>
    ELSE IF final_feedback.t # "str" THEN <<"0">>
    ELSE Strip(final_feedback.v)

\* has_camera_pattern: one of the "<level>-level angle" or "<x> angle" patterns
\* occurs in caption.lower()
CameraPatterns ==
    {"eye-level angle", "hip-level angle", "water-level angle", "ground-level angle",
     "aerial-level angle", "overhead-level angle", "underwater-level angle",
     "aerial angle", "overhead angle", "eye angle", "hip angle", "ground angle"}
has_camera_pattern(caption) ==
    \E i \in 1..Len(caption) : LowerLexeme(caption[i]) \in CameraPatterns

\* the entries the statistics pass of a script keeps
kept_entry(script, entry) ==
    /\ entry.caption_data.present
    /\ entry.status \in {"approved", "rejected"}
    /\ IF script = "mostly_static"
       THEN normalised_feedback(entry.caption_data.final_caption) # <<>>
       ELSE /\ entry.caption_data.feedback_is_needed
            /\ normalised_feedback(entry.caption_data.final_feedback) # <<>>

make_sample(script, i, entry) ==
    [entry_index |-> i, status |-> entry.status,
     final_feedback |-> normalised_feedback(entry.caption_data.final_feedback),
     initial_caption_rating_score |-> entry.caption_data.initial_caption_rating_score,
     pre_caption |-> IF script = "mostly_static"
                     THEN normalised_feedback(entry.caption_data.pre_caption)
                     ELSE entry.caption_data.pre_caption.v,
     final_caption |-> IF script = "mostly_static"
                       THEN normalised_feedback(entry.caption_data.final_caption)
                       ELSE entry.caption_data.final_caption.v]

analyze_export_statistics(script, export_data) ==
    LET entries == [i \in 1..Len(export_data) |-> make_sample(script, i, export_data[i])]
        all_samples_approved_rejected ==
            SelectSeq(entries, LAMBDA s : kept_entry(script, export_data[s.entry_index]))
        score_4_samples ==
            SelectSeq(all_samples_approved_rejected,
                      LAMBDA s : s.initial_caption_rating_score = JNum(4))
        non_5_score_samples ==
            SelectSeq(all_samples_approved_rejected,
                      LAMBDA s : s.initial_caption_rating_score # JNum(5))
    IN [total_approved_rejected |-> Len(all_samples_approved_rejected),
        score_4_count |-> Len(score_4_samples),
        all_samples_approved_rejected |-> all_samples_approved_rejected,
        score_4_samples |-> score_4_samples,
        non_5_score_samples |-> non_5_score_samples]

\* the list a script samples from (all_samples / camera_samples)
eligible_samples(script, stats) ==
    CASE script = "global_edit" -> stats.all_samples_approved_rejected
      [] script = "camera" ->
             SelectSeq(stats.all_samples_approved_rejected,
                       LAMBDA s : has_camera_pattern(s.pre_caption))
      [] script = "mostly_static" -> stats.non_5_score_samples

\* random.sample(population, k): any k elements, in any order
random_sample(population, k) ==
    {[j \in 1..k |-> population[f[j]]] :
        f \in {g \in [1..k -> 1..Len(population)] :
                  \A a, b \in 1..k : a # b => g[a] # g[b]}}

\* the results of extract_samples_from_export: (samples, total_size, stats), or
\* the ValueError of random.sample for a negative sample size
extract_samples_from_export(script, export_data, sample_count) ==
    LET stats == analyze_export_statistics(script, export_data)
        all_samples == eligible_samples(script, stats)
        total_size == Len(all_samples)
    IN IF sample_count = -1 \/ Len(all_samples) < sample_count
       THEN {[raised |-> FALSE, samples |-> all_samples, total_size |-> total_size,
              stats |-> stats]}
       ELSE IF sample_count < 0
       THEN {[raised |-> TRUE, samples |-> <<>>, total_size |-> 0, stats |-> stats]}
       ELSE {[raised |-> FALSE, samples |-> s, total_size |-> total_size, stats |-> stats] :
                s \in random_sample(all_samples, sample_count)}

NotExtracted ==
    [done |-> FALSE, raised |-> FALSE, samples |-> <<>>, total_size |-> 0,
     stats |-> analyze_export_statistics("global_edit", <<>>),
     classified |-> FALSE, labels |-> <<>>]
ExtractIdle ==
    /\ export = [script |-> "global_edit", data |-> <<>>, sample_count |-> -1]
    /\ extracted = NotExtracted
ExtractInit ==
    /\ \E script \in ExtractScripts :
           export \in [script : {script}, data : ExportDatas(script, MaxCaptions),
                       sample_count : SampleCounts]
    /\ extracted = NotExtracted

\* samples, total_dataset_size, stats = extract_samples_from_export(...)
ExtractSamples ==
    /\ ~extracted.done
    /\ \E r \in extract_samples_from_export(export.script, export.data, export.sample_count) :
           extracted' = [extracted EXCEPT !.done = TRUE, !.raised = r.raised,
                                          !.samples = r.samples,
                                          !.total_size = r.total_size, !.stats = r.stats]
    /\ UNCHANGED <<export, notExtract>>

\* C10: every sample extract_samples_from_export of global_edit_detection
\* returns has status approved
\* or rejected, a non-empty final_feedback and initial_caption_rating_score 4.
C10_FourScoreOnly ==
    (extracted.done /\ export.script = "global_edit") =>
        \A i \in 1..Len(extracted.samples) :
            /\ extracted.samples[i].status \in {"approved", "rejected"}
            /\ extracted.samples[i].final_feedback # <<>>
            /\ extracted.samples[i].initial_caption_rating_score = JNum(4)

\* the list the running script samples from
EligiblePopulation ==
    eligible_samples(export.script, analyze_export_statistics(export.script, export.data))
Members(seq) == {seq[i] : i \in 1..Len(seq)}

\* C11: extract_samples_from_export returns the whole eligible population when
\* sample_count is -1 or larger than the population, and otherwise exactly
\* sample_count pairwise distinct members of it; total_count is always the
\* size of the population and every returned sample belongs to it.
C11_SampleCountContract ==
    extracted.done =>
        /\ ~extracted.raised
        /\ extracted.total_size = Len(EligiblePopulation)
        /\ Members(extracted.samples) \subseteq Members(EligiblePopulation)
        /\ IF export.sample_count = -1 \/ export.sample_count > Len(EligiblePopulation)
           THEN extracted.samples = EligiblePopulation
           ELSE /\ Len(extracted.samples) = export.sample_count
                /\ Cardinality(Members(extracted.samples)) = export.sample_count

(***************************************************************************)
(* Annotation status in the dataset listing of the caption server.         *)
(***************************************************************************)
\* the status a record-based reading gives sample i of dataset d
StatusByRecord(d, i) ==
    IF saved[<<d, i>>].n = 0 THEN "pending"
    ELSE IF is_annotation_complete(saved[<<d, i>>].body) THEN "completed"
    ELSE "incomplete"

ListingAnswered == last.method = "GET" /\ last.endpoint = "dataset" /\ last.status = "200"

\* C13: in every answered GET /api/dataset/<name>, served with no other
\* request in progress, a sample is 'pending' exactly when no POST has been
\* saved for it, 'completed' exactly when its stored record satisfies
\* is_annotation_complete and 'incomplete' exactly when a record exists but is
\* not complete, whatever JSON object was posted.
C13_StatusByRecord ==
    ListingAnswered =>
        \A i \in Indices : last.body.status[i] = StatusByRecord(last.target[1], i)

\* the same reading when no stored record is the empty object
C13_StatusOfNonEmptyRecords ==
    (ListingAnswered /\ \A i \in Indices : saved[<<last.target[1], i>>].body # BodyEmpty) =>
        \A i \in Indices : last.body.status[i] = StatusByRecord(last.target[1], i)

(***************************************************************************)
(* Statistics of the caption server.                                       *)
(***************************************************************************)
\* the samples of dataset d for which a POST has been saved
RecordsOf(d) == {i \in Indices : saved[<<d, i>>].n > 0}

\* what the counters of a statistics response have to be for dataset d
CountsRecords(stats, d) ==
    /\ stats.total = Cardinality(RecordsOf(d))
    /\ stats.completed =
           Cardinality({i \in RecordsOf(d) : is_annotation_complete(saved[<<d, i>>].body)})
    /\ stats.completed + stats.incomplete = stats.total
    /\ stats.pending = 0

\* C14: every GET /api/stats/<dataset>, served with no other request in
\* progress, answers with total = the number of annotation records stored for
\* the dataset, completed = the number of them that satisfy
\* is_annotation_complete, completed + incomplete = total and pending = 0; when
\* the dataset has no JSON file in the repository or the repository cannot be
\* reached, the answer is the empty statistics response.
C14_StatsContract ==
    [][\A d \in Datasets, hfUp \in BOOLEAN :
          GetStats(d, hfUp) =>
              IF hfUp /\ d \in HFDatasets
              THEN CountsRecords(last'.body, d)
              ELSE last'.body = empty_stats_response]_vars

\* statistics over two stored records, one complete and one not
C14_Witness ==
    /\ last.method = "GET" /\ last.endpoint = "stats"
    /\ last.body.total = 2
    /\ last.body.completed = 1
    /\ last.body.incomplete = 1
    /\ RecordsOf(last.target[1]) = Indices

(***************************************************************************)
(* detect_mostly_static.py: string matching instead of an LLM.             *)
(***************************************************************************)
MostlyStaticTexts ==
    {None, PyStr(<<"word">>), PyStr(<<"mostly static">>), PyStr(<<"word", " ", "Mostly Static">>)}
MostlyStaticDatas ==
    {NoCaptionData}
    \cup [present : {TRUE}, feedback_is_needed : {TRUE},
          final_feedback : MostlyStaticTexts,
          initial_caption_rating_score : {None, JNum(4), JNum(5)},
          pre_caption : MostlyStaticTexts,
          final_caption : MostlyStaticTexts \cup {PyStr(<<" ">>)}]
MostlyStaticEntries == [status : Statuses, caption_data : MostlyStaticDatas]

\* A plausible slip: the phrase is searched without lower()
contains_mostly_static_exact(text) ==
    text # <<>> /\ \E i \in 1..Len(text) : text[i] = "mostly static"

\* contains_mostly_static: 'mostly static' in text.lower(), False for ''
contains_mostly_static(text) ==
    text # <<>> /\ \E i \in 1..Len(text) : LowerLexeme(text[i]) = "mostly static"

\* classify_mostly_static_critique: the label
classify_mostly_static_critique(sample) ==
    LET final_has_static == contains_mostly_static(sample.final_caption)
        feedback_has_static == contains_mostly_static(sample.final_feedback)
        pre_has_static == contains_mostly_static(sample.pre_caption)
    IN IF final_has_static /\ feedback_has_static /\ ~pre_has_static THEN "Yes" ELSE "No"

StaticInit ==
    /\ export \in [script : {"mostly_static"}, data : SeqsUpTo(MostlyStaticEntries, 1),
                   sample_count : {-1, 1}]
    /\ extracted = NotExtracted

\* for i, sample in enumerate(samples): sample['label'] = label
ClassifyStatic ==
    /\ extracted.done
    /\ ~extracted.raised
    /\ ~extracted.classified
    /\ export.script = "mostly_static"
    /\ extracted' = [extracted EXCEPT
                        !.classified = TRUE,
                        !.labels = [i \in 1..Len(extracted.samples) |->
                                       classify_mostly_static_critique(extracted.samples[i])]]
    /\ UNCHANGED <<export, notExtract>>

StaticNext == ExtractSamples \/ ClassifyStatic

\* the exported text is a string with the phrase in it, in either case
MentionsMostlyStatic(v) ==
    /\ v # None
    /\ v.t = "str"
    /\ \E i \in 1..Len(v.v) : v.v[i] \in {"mostly static", "Mostly Static"}

\* C12: detect_mostly_static labels a sample Yes exactly when its rating is
\* not 5, its final caption and its feedback contain "mostly static" (in any
\* case) and its pre-caption does not; every other analysed sample is No; and
\* every analysed sample is an approved or rejected caption whose final
\* caption is not empty.
C12_MostlyStaticLabel ==
    extracted.classified =>
        /\ Len(extracted.labels) = Len(extracted.samples)
        /\ \A i \in 1..Len(extracted.samples) :
               LET entry == export.data[extracted.samples[i].entry_index]
                   d == entry.caption_data
               IN /\ extracted.labels[i] \in {"Yes", "No"}
                  /\ extracted.labels[i] = "Yes" <=>
                         /\ d.initial_caption_rating_score # JNum(5)
                         /\ MentionsMostlyStatic(d.final_caption)
                         /\ MentionsMostlyStatic(d.final_feedback)
                         /\ ~MentionsMostlyStatic(d.pre_caption)
                  /\ entry.status \in {"approved", "rejected"}
                  /\ d.present
                  /\ d.final_caption # None
                  /\ \E j \in 1..Len(d.final_caption.v) : d.final_caption.v[j] \notin Whitespace

\* a critique written "Mostly Static" was labelled Yes
C12_Witness ==
    /\ extracted.classified
    /\ \E i \in 1..Len(extracted.samples) :
           /\ extracted.labels[i] = "Yes"
           /\ export.data[extracted.samples[i].entry_index].caption_data.final_feedback
                  = PyStr(<<"word", " ", "Mostly Static">>)

(***************************************************************************)
(* ShotBench viewer server (shotbench_viewer/server.py).  The two sample   *)
(* lists are loaded once by main() and handed to every handler; a handler  *)
(* thread serves a GET in one step and a POST in two (save_annotation      *)
(* opens the file, then writes and closes it).                             *)
(***************************************************************************)
MaxShots == 1
MaxListed == 3
MaxPage == 3
MaxPerPage == 2
Modalities == {"image", "video"}
ShotCategories == {"shot size", "camera angle"}

\* a sample of shotbench.json / refineshot.json; flags holds the per-response
\* keys (has_annotation, has_mistake, annotation_status, same_as_shotbench),
\* None in the loaded data
ShotSample(index, type, category, options) ==
    [index |-> index, type |-> type, category |-> category, options |-> options,
     answer |-> "A", flags |-> None]

\* the sample lists of n samples with indices 1..n
ShotLists(n, categories) ==
    UNION {[1..k -> Modalities \X categories] : k \in 0..n}
ShotData(list) ==
    [i \in 1..Len(list) |-> ShotSample(i, list[i][1], list[i][2], "o1")]

\* refineshot.json: for each sample nothing, the same options or other options
RefineChoices(n) == [1..n -> {"absent", "same", "refined"}]
RefineData(choice) ==
    LET present == SelectSeq([i \in 1..Len(choice) |-> i], LAMBDA i : choice[i] # "absent")
    IN [k \in 1..Len(present) |->
           ShotSample(present[k], "image", "shot size",
                      IF choice[present[k]] = "same" THEN "o1" ELSE "o2")]

\* the sample index of a request path: int() succeeded or raised ValueError
ShotFileIds == 0..MaxShots
ShotTargets == {[ok |-> FALSE, n |-> 0]} \cup [ok : {TRUE}, n : ShotFileIds]
NoTarget == [ok |-> FALSE, n |-> 0]

\* request bodies: not JSON, a JSON list, a JSON object
BadJson == [t |-> "badjson", shotbench_mistake |-> FALSE, sample_index |-> -1]
ListBody == [t |-> "list", shotbench_mistake |-> FALSE, sample_index |-> -1]
ShotBodies ==
    {BadJson, ListBody} \cup [t : {"dict"}, shotbench_mistake : BOOLEAN, sample_index : {-1}]
NoBody == [t |-> "none", shotbench_mistake |-> FALSE, sample_index |-> -1]
\* what two overlapping writers can leave in a file
Garbled == [t |-> "garbled", shotbench_mistake |-> FALSE, sample_index |-> -1]

\* an annotation file: text is <<>> when empty, else the one JSON value in it
NoAnnFile == [exists |-> FALSE, text |-> <<>>]

\* json.load(f)
shot_json_load(text) ==
    IF text = <<>> \/ text[1].t # "dict" THEN Raise ELSE Ret(text[1])

\* get_annotation: no try/except of its own
shot_get_annotation(fs, sample_index) ==
    IF sample_index \in DOMAIN fs /\ fs[sample_index].exists
    THEN shot_json_load(fs[sample_index].text)
    ELSE Ret(None)

\* refineshot_by_index.get(index)
by_index(data, index) ==
    IF \E i \in 1..Len(data) : data[i].index = index
    THEN data[CHOOSE i \in 1..Len(data) :
                 data[i].index = index /\ \A j \in (i + 1)..Len(data) : data[j].index # index]
    ELSE None

\* is_same of get_samples and get_single_sample
same_as_shotbench(s, rs) ==
    IF rs # None THEN s.options = rs.options /\ s.answer = rs.answer ELSE TRUE

\* A plausible slip: the flags are set on the shared sample itself
page_item_in_place(s, annotation, rs) ==
    LET item == [s EXCEPT !.flags =
                    [has_annotation |-> annotation # None,
                     has_mistake |-> annotation # None /\ annotation.shotbench_mistake,
                     annotation_status |-> IF annotation # None THEN "reviewed" ELSE "pending",
                     same_as_shotbench |-> same_as_shotbench(s, rs)]]
    IN [item |-> item, s |-> item]

\* item = {**s, 'has_annotation': ..., ...}: the item of the response and the
\* sample of the shared list afterwards
page_item(s, annotation, rs) ==
    LET item == [s EXCEPT !.flags =
                    [has_annotation |-> annotation # None,
                     has_mistake |-> annotation # None /\ annotation.shotbench_mistake,
                     annotation_status |-> IF annotation # None THEN "reviewed" ELSE "pending",
                     same_as_shotbench |-> same_as_shotbench(s, rs)]]
    IN [item |-> item, s |-> s]

Min(a, b) == IF a <= b THEN a ELSE b

\* samples[start:end]
PySlice(s, start, end) ==
    LET norm(k) == IF k < 0 THEN Max(Len(s) + k, 0) ELSE Min(k, Len(s))
    IN IF norm(start) < norm(end) THEN SubSeq(s, norm(start) + 1, norm(end)) ELSE <<>>

\* A plausible slip: pages counted from one
page_start_one_based(page, per_page) == (page - 1) * per_page

\* start = page * per_page
page_start(page, per_page) == page * per_page

\* the samples that pass  if modality: ...  if category: ...
filter_samples(data, modality, category) ==
    SelectSeq(SelectSeq(data, LAMBDA s : modality = "" \/ s.type = modality),
              LAMBDA s : category = "" \/ s.category = category)

\* get_samples: [raised, v, data] where data is the shared sample list
\* afterwards; per_page = 0 raises ZeroDivisionError
shot_get_samples(data, rdata, fs, modality, category, page, per_page) ==
    LET samples_ == filter_samples(data, modality, category)
        total == Len(samples_)
        start == page_start(page, per_page)
        end == start + per_page
        page_samples == PySlice(samples_, start, end)
        anns == [k \in 1..Len(page_samples) |-> shot_get_annotation(fs, page_samples[k].index)]
        pairs == [k \in 1..Len(page_samples) |->
                    page_item(page_samples[k], anns[k].v, by_index(rdata, page_samples[k].index))]
        inPage(s) == \E k \in 1..Len(page_samples) : page_samples[k].index = s.index
        pairOf(s) == pairs[CHOOSE k \in 1..Len(page_samples) : page_samples[k].index = s.index]
        raised == per_page = 0 \/ \E k \in 1..Len(page_samples) : anns[k].raised
    IN [raised |-> raised,
        v |-> IF raised THEN None
              ELSE [t |-> "samples",
                    samples |-> [k \in 1..Len(page_samples) |-> pairs[k].item],
                    total |-> total, page |-> page, per_page |-> per_page,
                    total_pages |-> (total + per_page - 1) \div per_page],
        data |-> IF \E k \in 1..Len(page_samples) : anns[k].raised THEN data
                 ELSE [i \in 1..Len(data) |->
                          IF inPage(data[i]) THEN pairOf(data[i]).s ELSE data[i]]]

\* get_single_sample: None for an index that is not in ShotBench
shot_get_single_sample(data, rdata, fs, sample_index) ==
    LET sb_sample == by_index(data, sample_index)
        rs_sample == by_index(rdata, sample_index)
        annotation == shot_get_annotation(fs, sample_index)
    IN IF sb_sample = None THEN Ret(None)
       ELSE IF annotation.raised THEN Raise
       ELSE Ret([t |-> "sample", shotbench |-> sb_sample, refineshot |-> rs_sample,
                 annotation |-> annotation.v,
                 same_as_shotbench |-> same_as_shotbench(sb_sample, rs_sample)])

\* get_statistics, overall: every sample_*.json is loaded
get_statistics(data, fs) ==
    LET present == {i \in DOMAIN fs : fs[i].exists}
    IN IF \E i \in present : shot_json_load(fs[i].text).raised THEN Raise
       ELSE Ret([t |-> "stats", total_samples |-> Len(data),
                 total_reviewed |-> Cardinality(present),
                 pending |-> Len(data) - Cardinality(present),
                 sb_mistakes |-> Cardinality({i \in present : fs[i].text[1].shotbench_mistake})])

\* get_dataset_info: totals of the two lists and of the annotation files
get_dataset_info(data, rdata, fs) ==
    LET present == {i \in DOMAIN fs : fs[i].exists}
    IN IF \E i \in present : shot_json_load(fs[i].text).raised THEN Raise
       ELSE Ret([t |-> "info", shotbench_total |-> Len(data), refineshot_total |-> Len(rdata),
                 refineshot_available |-> Len(rdata) > 0,
                 annotations_total |-> Cardinality(present)])

ShotThreads == {"t1", "t2"}
IdleShotThread == [pc |-> "idle", target |-> NoTarget, body |-> NoBody]
NoQuery == [modality |-> "", category |-> "", page |-> 0, per_page |-> 0]
NoShotRequest ==
    [method |-> "none", path |-> "none", target |-> NoTarget, query |-> NoQuery,
     reqbody |-> NoBody, status |-> "none", body |-> None]

\* the record of a handler step
ShotStep(method, path, target, reqbody, status, body) ==
    [method |-> method, path |-> path, target |-> target, query |-> NoQuery,
     reqbody |-> reqbody, status |-> status, body |-> body]

\* the response to what a store method gave: its value, or no response when it
\* raised (the exception leaves do_GET)
Answer(method, path, target, r, ifNone) ==
    ShotStep(method, path, target, NoBody,
             IF r.raised THEN "exception" ELSE IF r.v = None THEN ifNone ELSE "200",
             IF r.raised THEN None ELSE r.v)

ShotIdle ==
    /\ shotbench_data = <<>>
    /\ refineshot_data = <<>>
    /\ annfiles = [i \in ShotFileIds |-> NoAnnFile]
    /\ sthr = [t \in ShotThreads |-> IdleShotThread]
    /\ slast = NoShotRequest

\* main(): the lists are loaded, the annotations directory is empty
ShotInit ==
    /\ \E list \in ShotLists(MaxShots, {"shot size"}) :
           /\ shotbench_data = ShotData(list)
           /\ \E choice \in RefineChoices(Len(list)) : refineshot_data = RefineData(choice)
    /\ annfiles = [i \in ShotFileIds |-> NoAnnFile]
    /\ sthr = [t \in ShotThreads |-> IdleShotThread]
    /\ slast = NoShotRequest

\* a longer ShotBench list, no RefineShot, for the listing
ListingInit ==
    /\ \E list \in ShotLists(MaxListed, ShotCategories) : shotbench_data = ShotData(list)
    /\ refineshot_data = <<>>
    /\ annfiles = [i \in ShotFileIds |-> NoAnnFile]
    /\ sthr = [t \in ShotThreads |-> IdleShotThread]
    /\ slast = NoShotRequest

\* do_GET, /api/samples?modality=&category=&page=&per_page=
ShotGetSamples(modality, category, page, per_page) ==
    LET r == shot_get_samples(shotbench_data, refineshot_data, annfiles,
                              modality, category, page, per_page)
    IN /\ slast' = [ShotStep("GET", "samples", NoTarget, NoBody,
                             IF r.raised THEN "exception" ELSE "200", r.v)
                       EXCEPT !.query = [modality |-> modality, category |-> category,
                                         page |-> page, per_page |-> per_page]]
       /\ shotbench_data' = r.data
       /\ UNCHANGED <<refineshot_data, annfiles, sthr, notShot>>

\* do_GET, /api/sample/<x>
ShotGetSample(target) ==
    /\ slast' = IF ~target.ok
                THEN ShotStep("GET", "sample", target, NoBody, "400", None)
                ELSE Answer("GET", "sample", target,
                            shot_get_single_sample(shotbench_data, refineshot_data, annfiles,
                                                   target.n), "404")
    /\ UNCHANGED <<shotbench_data, refineshot_data, annfiles, sthr, notShot>>

\* do_GET, /api/annotation/<x>: annotation or {}
ShotGetAnnotation(target) ==
    /\ slast' = IF ~target.ok
                THEN ShotStep("GET", "annotation", target, NoBody, "400", None)
                ELSE Answer("GET", "annotation", target,
                            shot_get_annotation(annfiles, target.n), "200")
    /\ UNCHANGED <<shotbench_data, refineshot_data, annfiles, sthr, notShot>>

\* do_GET, /api/stats
ShotGetStats ==
    /\ slast' = Answer("GET", "stats", NoTarget, get_statistics(shotbench_data, annfiles), "200")
    /\ UNCHANGED <<shotbench_data, refineshot_data, annfiles, sthr, notShot>>

\* do_GET, /api/info
ShotGetInfo ==
    /\ slast' = Answer("GET", "info", NoTarget,
                       get_dataset_info(shotbench_data, refineshot_data, annfiles), "200")
    /\ UNCHANGED <<shotbench_data, refineshot_data, annfiles, sthr, notShot>>

\* A plausible slip: only the index is checked before the save
post_outcome_unchecked(target, body) ==
    IF ~target.ok THEN "400"
    ELSE IF body.t # "dict" THEN "500"
    ELSE "save"

\* do_POST on /api/annotation/<x> up to the with statement of save_annotation:
\* int() or json.loads raise ValueError (400); annotation_data['sample_index']
\* raises TypeError on a body that is not an object and save_annotation
\* returns False (500)
post_outcome(target, body) ==
    IF ~target.ok \/ body.t = "badjson" THEN "400"
    ELSE IF body.t # "dict" THEN "500"
    ELSE "save"

\* do_POST answers without touching the annotations directory
ShotPostRejected(t, target, body) ==
    /\ sthr[t].pc = "idle"
    /\ post_outcome(target, body) # "save"
    /\ slast' = ShotStep("POST", "annotation", target, body, post_outcome(target, body), None)
    /\ UNCHANGED <<shotbench_data, refineshot_data, annfiles, sthr, notShot>>

\* open(ann_file, 'w') fails: save_annotation returns False
ShotPostOpenFails(t, target, body) ==
    /\ sthr[t].pc = "idle"
    /\ post_outcome(target, body) = "save"
    /\ slast' = ShotStep("POST", "annotation", target, body, "500", None)
    /\ UNCHANGED <<shotbench_data, refineshot_data, annfiles, sthr, notShot>>

\* open(ann_file, 'w'): the file is created or truncated
ShotPostOpen(t, target, body) ==
    /\ sthr[t].pc = "idle"
    /\ post_outcome(target, body) = "save"
    /\ annfiles' = [annfiles EXCEPT ![target.n] = [exists |-> TRUE, text |-> <<>>]]
    /\ sthr' = [sthr EXCEPT ![t] =
                   [pc |-> "saving", target |-> target,
                    body |-> [body EXCEPT !.sample_index = target.n]]]
    /\ slast' = ShotStep("POST", "annotation", target, body, "none", None)
    /\ UNCHANGED <<shotbench_data, refineshot_data, notShot>>

\* json.dump and close, then {"success": true}; a file another thread has
\* written since this one opened it ends as either text or as a mix
ShotSaveClose(t) ==
    /\ sthr[t].pc = "saving"
    /\ \E text \in IF annfiles[sthr[t].target.n].text = <<>>
                   THEN {<<sthr[t].body>>}
                   ELSE {<<sthr[t].body>>, <<Garbled>>} :
           annfiles' = [annfiles EXCEPT ![sthr[t].target.n] = [exists |-> TRUE, text |-> text]]
    /\ sthr' = [sthr EXCEPT ![t] = IdleShotThread]
    /\ slast' = ShotStep("POST", "annotation", sthr[t].target, sthr[t].body, "200", None)
    /\ UNCHANGED <<shotbench_data, refineshot_data, notShot>>

\* json.dump or the write fails: save_annotation returns False
ShotSaveFails(t) ==
    /\ sthr[t].pc = "saving"
    /\ sthr' = [sthr EXCEPT ![t] = IdleShotThread]
    /\ slast' = ShotStep("POST", "annotation", sthr[t].target, sthr[t].body, "500", None)
    /\ UNCHANGED <<shotbench_data, refineshot_data, annfiles, notShot>>

\* do_POST on any other path
ShotPostElsewhere(t, body) ==
    /\ sthr[t].pc = "idle"
    /\ slast' = ShotStep("POST", "other", NoTarget, body, "404", None)
    /\ UNCHANGED <<shotbench_data, refineshot_data, annfiles, sthr, notShot>>

Filters(values) == {""} \cup values

\* requests handled by overlapping threads
ShotNext ==
    \/ \E modality \in Filters({"image"}), page \in 0..1, per_page \in 1..2 :
            ShotGetSamples(modality, "", page, per_page)
    \/ \E target \in ShotTargets : ShotGetSample(target)
    \/ \E target \in ShotTargets : ShotGetAnnotation(target)
    \/ ShotGetStats
    \/ ShotGetInfo
    \/ \E t \in ShotThreads, target \in ShotTargets, body \in ShotBodies :
            ShotPostRejected(t, target, body)
    \/ \E t \in ShotThreads, target \in ShotTargets, body \in ShotBodies :
            ShotPostOpenFails(t, target, body)
    \/ \E t \in ShotThreads, target \in ShotTargets, body \in ShotBodies :
            ShotPostOpen(t, target, body)
    \/ \E t \in ShotThreads : ShotSaveClose(t)
    \/ \E t \in ShotThreads : ShotSaveFails(t)
    \/ \E t \in ShotThreads, body \in ShotBodies : ShotPostElsewhere(t, body)

\* listing requests with every filter, page and page size
ListingNext ==
    \E modality \in Filters(Modalities), category \in Filters(ShotCategories),
       page \in (0 - 1)..MaxPage, per_page \in 0..MaxPerPage :
        ShotGetSamples(modality, category, page, per_page)

RECURSIVE Flatten(_)
Flatten(seqs) == IF seqs = <<>> THEN <<>> ELSE Head(seqs) \o Flatten(Tail(seqs))

IndexesOf(seq) == [k \in 1..Len(seq) |-> seq[k].index]

\* the samples of the loaded list that match the filters of a query
Matching(q) ==
    SelectSeq(shotbench_data,
              LAMBDA s : /\ q.modality # "" => s.type = q.modality
                         /\ q.category # "" => s.category = q.category)

\* ceil(n / d) for d >= 1
CeilDiv(n, d) == CHOOSE k \in 0..n : k * d >= n /\ (k - 1) * d < n

\* the page p that get_samples gives for the filters and page size of q
PageOf(q, p) ==
    shot_get_samples(shotbench_data, refineshot_data, annfiles,
                     q.modality, q.category, p, q.per_page).v.samples

Listed == slast.path = "samples" /\ slast.query.per_page >= 1 /\ slast.query.page >= 0

\* C18: for every answered GET /api/samples with per_page >= 1 and page >= 0:
\* total is the number of samples matching the filters, total_pages is
\* ceil(total / per_page), the pages 0 .. total_pages-1 put one after the
\* other are the matching samples in dataset order, each exactly once, and
\* every later page is empty.
C18_Pagination ==
    Listed =>
        LET q == slast.query
            total == Len(Matching(q))
            total_pages == CeilDiv(total, q.per_page)
        IN /\ slast.status = "200"
           /\ slast.body.total = total
           /\ slast.body.total_pages = total_pages
           /\ IndexesOf(slast.body.samples) = IndexesOf(PageOf(q, q.page))
           /\ Flatten([p \in 1..total_pages |-> IndexesOf(PageOf(q, p - 1))])
                  = IndexesOf(Matching(q))
           /\ \A p \in total_pages..(MaxPage + 1) : PageOf(q, p) = <<>>

\* the second and last page of three matching samples, two to a page
C18_Witness ==
    /\ Listed
    /\ slast.query.page = 1
    /\ slast.query.per_page = 2
    /\ slast.body.total = 3
    /\ slast.body.total_pages = 2
    /\ Len(slast.body.samples) = 1
    /\ slast.body.samples[1].index = Matching(slast.query)[3].index

\* ---- C19 ---------------------------------------------------------------
\* C19: no step of any GET or POST handler, overlapping or not, changes the
\* ShotBench or RefineShot sample list that all handlers share.
C19_SharedListsUntouched ==
    [][shotbench_data' = shotbench_data /\ refineshot_data' = refineshot_data]_vars

\* a listing flagged a sample as annotated while another thread was saving,
\* and the shared sample carries no flags
C19_Witness ==
    /\ slast.path = "samples"
    /\ slast.status = "200"
    /\ Len(slast.body.samples) = 1
    /\ slast.body.samples[1].flags # None
    /\ slast.body.samples[1].flags.has_annotation
    /\ shotbench_data[1].flags = None
    /\ \E t \in ShotThreads : sthr[t].pc = "saving"

(***************************************************************************)
(* generate_refineshot_from_shotbench (shotbench_viewer/download_data.py). *)
(* A text is a sequence of lexemes; categories maps a category key to its  *)
(* breakdown, the subcategories in the order of the JSON object.           *)
(***************************************************************************)
MaxRefined == 2
MaxPermuted == 2
MaxOptions == 10
Letters == <<"A", "B", "C", "D", "E", "F", "G", "H", "I", "J", "K", "L">>
NoLetter == "None"

Subcategory(name, items) == [name |-> name, items |-> items]
FramingBreakdown ==
    <<Subcategory("subject_count", << <<"Single">>, <<"2 shot">> >>),
      Subcategory("detail", << <<"Insert">> >>)>>
LightingBreakdown ==
    <<Subcategory("quality", << <<"Hard light">>, <<"Soft light">> >>)>>
\* a subcategory with one item more than the letters A-J
LongBreakdown ==
    <<Subcategory("subject_count",
                  [i \in 1..(MaxOptions + 1) |->
                      IF i = 1 THEN <<"Single">> ELSE <<"item", Letters[i]>>])>>
Taxonomies ==
    { [k \in {"shot framing", "lighting"} |->
          IF k = "lighting" THEN LightingBreakdown ELSE FramingBreakdown],
      [k \in {"shot framing"} |-> FramingBreakdown],
      [k \in {"shot framing"} |-> LongBreakdown] }

RefinedCategories == {"shot framing", "lighting type", "lighting"}
AnswerTexts ==
    {<<"Single">>, <<"Insert">>, <<"Hard light">>, <<"Single", ",", "Insert">>, <<"Unknown">>}

\* options as stored: a dict, a string holding the JSON of a dict, or a string
\* that is not JSON
OptionsOf(kind, text) ==
    [kind |-> kind, m |-> [l \in {"A", "B"} |-> IF l = "A" THEN text ELSE <<"Other">>]]
OriginalQuestion == [t |-> "original", cat |-> "", text |-> <<>>]
ShotBenchSamples ==
    {[index |-> 0, category |-> c, question |-> OriginalQuestion,
      options |-> OptionsOf(o[1], text), answer |-> o[2],
      source |-> "shotbench", refined |-> FALSE, subcategory |-> ""] :
        c \in {"shot framing", "lighting", "camera angle"},
        text \in AnswerTexts,
        o \in {<<"dict", "A">>, <<"dict", "Z">>, <<"str", "A">>, <<"notjson", "A">>}}
ShotBenchLists(n) ==
    UNION {{[i \in 1..k |-> [f[i] EXCEPT !.index = i]] : f \in [1..k -> ShotBenchSamples]} :
               k \in 0..n}

\* the orders random.shuffle may leave a list in: every order of a short
\* list, every rotation of a longer one
Shuffles(items) ==
    IF Len(items) <= MaxPermuted
    THEN {[i \in 1..Len(items) |-> items[f[i]]] :
              f \in {g \in [1..Len(items) -> 1..Len(items)] :
                        \A i, j \in 1..Len(items) : i # j => g[i] # g[j]}}
    ELSE {[i \in 1..Len(items) |-> items[((i + r - 1) % Len(items)) + 1]] :
              r \in 0..(Len(items) - 1)}

\* refined = sample.copy(); source = 'refineshot'; refined = False
kept(sample) == [sample EXCEPT !.source = "refineshot", !.refined = FALSE]

\* for i, item in enumerate(shuffled): at most ten letters, new_answer is the
\* letter of answer_text or None
lettered(shuffled, answer_text) ==
    LET n == Min(Len(shuffled), MaxOptions)
    IN [options |-> [kind |-> "dict", m |-> [l \in {Letters[i] : i \in 1..n} |->
                        shuffled[CHOOSE i \in 1..n : Letters[i] = l]]],
        answer |-> IF \E i \in 1..n : shuffled[i] = answer_text
                   THEN Letters[CHOOSE i \in 1..n :
                                   /\ shuffled[i] = answer_text
                                   /\ \A j \in (i + 1)..n : shuffled[j] # answer_text]
                   ELSE NoLetter]

\* the subcategory of the breakdown that lists answer_text, the first one
FirstSubcategory(breakdown, answer_text) ==
    LET hits == {k \in 1..Len(breakdown) :
                    \E i \in 1..Len(breakdown[k].items) : breakdown[k].items[i] = answer_text}
    IN IF hits = {} THEN 0 ELSE CHOOSE k \in hits : \A j \in hits : k <= j

\* one turn of the loop: the samples it can append
refine_sample(sample, categories) ==
    LET cat == sample.category
        options == sample.options
        parsed == options.kind \in {"dict", "str"}
        answer_text == options.m[sample.answer]
        breakdown == categories[cat]
        found == FirstSubcategory(breakdown, answer_text)
        subcategory_items == breakdown[found].items
        refined == [kept(sample) EXCEPT !.refined = TRUE, !.subcategory = breakdown[found].name]
    IN IF cat \notin RefinedCategories \/ cat \notin DOMAIN categories THEN {kept(sample)}
       ELSE IF ~parsed \/ sample.answer \notin DOMAIN options.m THEN {kept(sample)}
       ELSE IF \E i \in 1..Len(answer_text) : answer_text[i] = "," THEN {kept(sample)}
       ELSE IF found = 0 THEN {kept(sample)}
       ELSE IF Len(subcategory_items) = 1
       THEN {[refined EXCEPT
                 !.question = [t |-> "binary", cat |-> cat, text |-> answer_text],
                 !.options = lettered(yes_no, <<"yes">>).options,
                 !.answer = lettered(yes_no, <<"yes">>).answer] :
                 yes_no \in Shuffles(<< <<"yes">>, <<"no">> >>)}
       ELSE {[refined EXCEPT
                 !.options = lettered(shuffled, answer_text).options,
                 !.answer = lettered(shuffled, answer_text).answer] :
                 shuffled \in Shuffles(subcategory_items)}

\* generate_refineshot_from_shotbench: the lists it can return
generate_refineshot_from_shotbench(shotbench_samples, categories) ==
    {out \in [1..Len(shotbench_samples) ->
                 UNION {refine_sample(shotbench_samples[i], categories) :
                            i \in 1..Len(shotbench_samples)}] :
        \A i \in 1..Len(shotbench_samples) :
            out[i] \in refine_sample(shotbench_samples[i], categories)}

NotGenerated == [done |-> FALSE, samples |-> <<>>]
RefineIdle ==
    /\ refineIn = [samples |-> <<>>, categories |-> [k \in {"shot framing"} |-> FramingBreakdown]]
    /\ refineOut = NotGenerated
RefineInit ==
    /\ refineIn \in [samples : ShotBenchLists(MaxRefined), categories : Taxonomies]
    /\ refineOut = NotGenerated

GenerateRefineShot ==
    /\ ~refineOut.done
    /\ \E out \in generate_refineshot_from_shotbench(refineIn.samples, refineIn.categories) :
           refineOut' = [done |-> TRUE, samples |-> out]
    /\ UNCHANGED <<refineIn, notRefine>>

\* ---- C20 ---------------------------------------------------------------
\* the items of the subcategory of the sample's category that lists its answer
ItemsFor(sample) ==
    LET breakdown == refineIn.categories[sample.category]
        k == FirstSubcategory(breakdown, sample.options.m[sample.answer])
    IN {breakdown[k].items[i] : i \in 1..Len(breakdown[k].items)}

Refinable(sample) ==
    /\ sample.category \in {"shot framing", "lighting type", "lighting"}
    /\ sample.category \in DOMAIN refineIn.categories
    /\ sample.answer \in DOMAIN sample.options.m
    /\ \A i \in 1..Len(sample.options.m[sample.answer]) : sample.options.m[sample.answer][i] # ","
    /\ \E k \in 1..Len(refineIn.categories[sample.category]) :
           \E i \in 1..Len(refineIn.categories[sample.category][k].items) :
               refineIn.categories[sample.category][k].items[i]
                   = sample.options.m[sample.answer]

AnswerPreserved(sample, r) ==
    /\ r.index = sample.index
    /\ r.refined => Refinable(sample)
    /\ ~r.refined =>
           /\ r.question = sample.question
           /\ r.options = sample.options
           /\ r.answer = sample.answer
    /\ (r.refined /\ Cardinality(ItemsFor(sample)) > 1) =>
           /\ r.answer # NoLetter
           /\ r.answer \in DOMAIN r.options.m
           /\ r.options.m[r.answer] = sample.options.m[sample.answer]
           /\ {r.options.m[l] : l \in DOMAIN r.options.m} = ItemsFor(sample)
    /\ (r.refined /\ Cardinality(ItemsFor(sample)) = 1) =>
           /\ r.question.t = "binary"
           /\ r.answer \in DOMAIN r.options.m
           /\ r.options.m[r.answer] = <<"yes">>

\* C20: generate_refineshot_from_shotbench returns one sample per input
\* sample, in the same order and with the same index; a sample is refined only
\* when its category is shot framing, lighting type or lighting, its answer
\* text has no comma and is listed in a subcategory of the taxonomy; an
\* unrefined sample keeps question, options and answer; a refined
\* multi-choice sample has a non-null answer letter whose option is the
\* original answer text and has the items of the subcategory as options; a
\* refined single-item sample is a yes/no question whose answer letter is yes.
C20_AnswerPreserved ==
    refineOut.done =>
        /\ Len(refineOut.samples) = Len(refineIn.samples)
        /\ \A i \in 1..Len(refineIn.samples) :
               AnswerPreserved(refineIn.samples[i], refineOut.samples[i])

\* the same when no subcategory of the taxonomy has more than ten items
C20_AnswerPreservedUpToTenItems ==
    (refineOut.done
        /\ \A c \in DOMAIN refineIn.categories :
               \A k \in 1..Len(refineIn.categories[c]) :
                   Len(refineIn.categories[c][k].items) <= MaxOptions) =>
        /\ Len(refineOut.samples) = Len(refineIn.samples)
        /\ \A i \in 1..Len(refineIn.samples) :
               AnswerPreserved(refineIn.samples[i], refineOut.samples[i])

(***************************************************************************)
(* The prompt template store (caption/test_llm.py, LLMTestApp).            *)
(* Templates are files <name>.txt in json_policy/templates/<folder>, one   *)
(* folder per task; the default reference is the file default.txt of the   *)
(* same folder, whose text is the name of a template.  A name is a         *)
(* sequence of characters; a prompt is a sequence of symbols in which the  *)
(* placeholder {caption} is one symbol.  The calls are those of the        *)
(* Streamlit page (lines 740-860), one script run at a time.               *)
(***************************************************************************)
task_folder_map ==
    [subject_description |-> "subject", scene_composition_dynamics |-> "scene",
     subject_motion_dynamics |-> "motion", spatial_framing_dynamics |-> "spatial",
     camera_framing_dynamics |-> "camera", color_composition_dynamics |-> "color",
     lighting_setup_dynamics |-> "lighting", lighting_effects_dynamics |-> "effects"]

\* the tasks of the configured captions (selected_caption["task"])
TemplateTasks == {"subject_description", "camera_framing_dynamics"}

\* mutant of get_templates_dir: one folder for every task
get_templates_dir_shared(task) == "templates"

\* task_folder_map.get(task, task); mkdir(exist_ok) leaves the files alone
get_templates_dir(task) ==
    IF task \in DOMAIN task_folder_map THEN task_folder_map[task] ELSE task

TemplateFolders == {get_templates_dir(task) : task \in TemplateTasks}

DefaultName == <<"d", "e", "f", "a", "u", "l", "t">>
\* what the user may type into "Template name:"
TemplateNames == {<<>>, DefaultName, <<"v", "1">>, <<"v", "-", "2">>, <<"v", " ", "1">>}

AlnumChars == {"a", "d", "e", "f", "l", "t", "u", "v", "1", "2"}
\* str.replace(old, "") and str.isalnum() on a sequence of characters
replace(s, old) == SelectSeq(s, LAMBDA c : c # old)
isalnum(s) == s # <<>> /\ \A i \in 1..Len(s) : s[i] \in AlnumChars

\* code point of a character, for the order of sorted()
ord(c) ==
    CASE c = " " -> 32 [] c = "-" -> 45 [] c = "." -> 46 [] c = "1" -> 49
      [] c = "2" -> 50 [] c = "a" -> 97 [] c = "d" -> 100 [] c = "e" -> 101
      [] c = "f" -> 102 [] c = "l" -> 108 [] c = "t" -> 116 [] c = "u" -> 117
      [] c = "v" -> 118

RECURSIVE lex_lt(_, _)
lex_lt(a, b) ==
    IF b = <<>> THEN FALSE
    ELSE IF a = <<>> THEN TRUE
    ELSE IF Head(a) = Head(b) THEN lex_lt(Tail(a), Tail(b))
    ELSE ord(Head(a)) < ord(Head(b))

\* sorted(templates_dir.glob("*.txt")), as the stems of the paths in order
RECURSIVE sorted_stems(_)
sorted_stems(S) ==
    IF S = {} THEN <<>>
    ELSE LET least == CHOOSE x \in S : \A y \in S \ {x} :
                          lex_lt(x \o <<".">>, y \o <<".">>)
         IN  <<least>> \o sorted_stems(S \ {least})

\* every file stem the page can create in a folder
TemplateStems == {n \in TemplateNames : isalnum(replace(replace(n, "_"), "-"))}

\* the code-generated default template of a task (get_prompt_template_for_task)
get_prompt_template_for_task(task) ==
    LET prompt_key == IF task \in DOMAIN task_folder_map THEN task_folder_map[task] ELSE task
    IN  IF prompt_key \in {"camera", "subject", "motion"}
        THEN <<"base", "{caption}", prompt_key>>
        ELSE <<"plain", "{caption}">>

\* what the text area can hold when Save is clicked
PromptTexts(task) ==
    {get_prompt_template_for_task(task), <<"edited", "{caption}">>, <<"edited">>}

has_placeholder(prompt_template) ==
    \E i \in 1..Len(prompt_template) : prompt_template[i] = "{caption}"

path_exists(fs, dir, stem) == stem \in DOMAIN fs[dir] /\ fs[dir][stem].exists
write_text(fs, dir, stem, text) ==
    [fs EXCEPT ![dir][stem] = [exists |-> TRUE, data |-> text]]

\* mutant of save_template: writes whether or not the file exists
save_template_overwriting(fs, name, content, task) ==
    [ret |-> TRUE, fs |-> write_text(fs, get_templates_dir(task), name, content)]

save_template(fs, name, content, task) ==
    LET dir == get_templates_dir(task)
    IN  IF path_exists(fs, dir, name)
        THEN [ret |-> FALSE, fs |-> fs]
        ELSE [ret |-> TRUE, fs |-> write_text(fs, dir, name, content)]

get_available_templates(fs, task) ==
    LET dir == get_templates_dir(task)
    IN  <<DefaultName>> \o sorted_stems({s \in DOMAIN fs[dir] : fs[dir][s].exists})

\* mutant of load_template: "default" is always the code-generated template
load_template_generated(fs, name, task) ==
    IF name # DefaultName /\ path_exists(fs, get_templates_dir(task), name)
    THEN fs[get_templates_dir(task)][name].data
    ELSE get_prompt_template_for_task(task)

load_template(fs, name, task) ==
    LET dir == get_templates_dir(task)
        ref_name == Strip(fs[dir][DefaultName].data)
    IN  IF name = DefaultName
        THEN IF path_exists(fs, dir, DefaultName) /\ path_exists(fs, dir, ref_name)
             THEN fs[dir][ref_name].data
             ELSE get_prompt_template_for_task(task)
        ELSE IF path_exists(fs, dir, name)
             THEN fs[dir][name].data
             ELSE get_prompt_template_for_task(task)

set_as_default(fs, template_name, task) ==
    write_text(fs, get_templates_dir(task), DefaultName, template_name)

NoName == [some |-> FALSE, name |-> <<>>]
get_default_template_name(fs, task) ==
    LET dir == get_templates_dir(task)
    IN  IF path_exists(fs, dir, DefaultName)
        THEN [some |-> TRUE, name |-> Strip(fs[dir][DefaultName].data)]
        ELSE NoName

has_custom_default(fs, task) == path_exists(fs, get_templates_dir(task), DefaultName)

reset_default(fs, task) ==
    LET dir == get_templates_dir(task)
    IN  IF path_exists(fs, dir, DefaultName)
        THEN [fs EXCEPT ![dir][DefaultName] = NoFile]
        ELSE fs

\* saved_templates of the page: the listing without "default"
saved_templates(fs, task) ==
    SelectSeq(get_available_templates(fs, task), LAMBDA t : t # DefaultName)

\* a call on the store: its arguments and what it returned
TCall(op, task, name, content, ret, text, listing) ==
    [op |-> op, task |-> task, name |-> name, content |-> content,
     ret |-> ret, text |-> text, listing |-> listing]
NoTemplateCall == TCall("none", "none", <<>>, <<>>, FALSE, <<>>, <<>>)

TmplIdle ==
    /\ templates = [dir \in {} |-> NoFile]
    /\ tlast = NoTemplateCall

EmptyFolder == [stem \in TemplateStems |-> NoFile]
\* a folder whose default.txt names a template that is not in the folder,
\* the case the second exists() of load_template is for (line 632)
DanglingFolder ==
    [EmptyFolder EXCEPT ![DefaultName] = [exists |-> TRUE, data |-> <<"v", "1">>]]

\* the folders as the page finds them: empty, or one with such a reference
TmplInit ==
    /\ templates \in {[dir \in TemplateFolders |-> EmptyFolder],
                      [dir \in TemplateFolders |->
                          IF dir = "subject" THEN DanglingFolder ELSE EmptyFolder]}
    /\ tlast = NoTemplateCall

\* the checks of the Save button before save_template is called (lines 803-810)
Saveable(new_template_name, prompt_template) ==
    /\ new_template_name # <<>>
    /\ new_template_name # DefaultName
    /\ has_placeholder(prompt_template)
    /\ isalnum(replace(replace(new_template_name, "_"), "-"))

SaveRejected(task, name, content) ==
    /\ ~Saveable(name, content)
    /\ tlast' = TCall("save_rejected", task, name, content, FALSE, <<>>, <<>>)
    /\ UNCHANGED <<templates, notTmpl>>

SaveTemplate(task, name, content) ==
    /\ Saveable(name, content)
    /\ LET r == save_template(templates, name, content, task)
       IN  /\ templates' = r.fs
           /\ tlast' = TCall("save_template", task, name, content, r.ret, <<>>, <<>>)
    /\ UNCHANGED notTmpl

GetAvailableTemplates(task) ==
    /\ tlast' = TCall("get_available_templates", task, <<>>, <<>>, TRUE, <<>>,
                      get_available_templates(templates, task))
    /\ UNCHANGED <<templates, notTmpl>>

\* the selected template is one of the listing
LoadTemplate(task, name) ==
    /\ \E i \in DOMAIN get_available_templates(templates, task) :
           get_available_templates(templates, task)[i] = name
    /\ tlast' = TCall("load_template", task, name, <<>>, TRUE,
                      load_template(templates, name, task), <<>>)
    /\ UNCHANGED <<templates, notTmpl>>

HasCustomDefault(task) ==
    /\ tlast' = TCall("has_custom_default", task, <<>>, <<>>,
                      has_custom_default(templates, task), <<>>, <<>>)
    /\ UNCHANGED <<templates, notTmpl>>

GetDefaultTemplateName(task) ==
    /\ LET r == get_default_template_name(templates, task)
       IN  tlast' = TCall("get_default_template_name", task, <<>>, <<>>,
                          r.some, r.name, <<>>)
    /\ UNCHANGED <<templates, notTmpl>>

\* default_choice is one of saved_templates
SetAsDefault(task, default_choice) ==
    /\ \E i \in DOMAIN saved_templates(templates, task) :
           saved_templates(templates, task)[i] = default_choice
    /\ templates' = set_as_default(templates, default_choice, task)
    /\ tlast' = TCall("set_as_default", task, default_choice, <<>>, TRUE, <<>>, <<>>)
    /\ UNCHANGED notTmpl

\* the button is shown with saved templates and enabled with a custom default
ResetDefault(task) ==
    /\ saved_templates(templates, task) # <<>>
    /\ has_custom_default(templates, task)
    /\ templates' = reset_default(templates, task)
    /\ tlast' = TCall("reset_default", task, <<>>, <<>>, TRUE, <<>>, <<>>)
    /\ UNCHANGED notTmpl

TmplNext ==
    \E task \in TemplateTasks :
        \/ \E name \in TemplateNames, content \in PromptTexts(task) :
               SaveRejected(task, name, content) \/ SaveTemplate(task, name, content)
        \/ GetAvailableTemplates(task)
        \/ \E name \in TemplateStems : LoadTemplate(task, name)
        \/ HasCustomDefault(task)
        \/ GetDefaultTemplateName(task)
        \/ \E default_choice \in TemplateStems : SetAsDefault(task, default_choice)
        \/ ResetDefault(task)

(***************************************************************************)
(* C21: the template store never overwrites.  A save_template(name,        *)
(* content, task) call returns False and changes no file when <name>.txt   *)
(* exists in the folder of the task, and returns True with <name>.txt      *)
(* holding content otherwise; no step of the store changes a template file *)
(* that exists, so a template keeps the content of the first successful    *)
(* save under its name; and a save for one task changes no file of         *)
(* another task.                                                           *)
(***************************************************************************)
TemplateFile(fs, task, name) == fs[get_templates_dir(task)][name]
SavedNames == TemplateStems \ {DefaultName}

SaveContract ==
    tlast'.op = "save_template" =>
        LET existed == TemplateFile(templates, tlast'.task, tlast'.name).exists
        IN  /\ tlast'.ret = ~existed
            /\ existed => templates' = templates
            /\ ~existed => TemplateFile(templates', tlast'.task, tlast'.name)
                               = [exists |-> TRUE, data |-> tlast'.content]
            /\ \A other \in TemplateTasks \ {tlast'.task}, stem \in TemplateStems :
                   TemplateFile(templates', other, stem) = TemplateFile(templates, other, stem)

FirstSaveKept ==
    \A task \in TemplateTasks, name \in SavedNames :
        TemplateFile(templates, task, name).exists =>
            TemplateFile(templates', task, name) = TemplateFile(templates, task, name)

C21_NeverOverwrites == [][SaveContract /\ FirstSaveKept]_vars

\* a save under a taken name, with another content, was refused, and the
\* other task has a template of its own
C21_Witness ==
    /\ tlast.op = "save_template"
    /\ ~tlast.ret
    /\ TemplateFile(templates, tlast.task, tlast.name).exists
    /\ TemplateFile(templates, tlast.task, tlast.name).data # tlast.content
    /\ \E other \in TemplateTasks \ {tlast.task}, name \in SavedNames :
           TemplateFile(templates, other, name).exists

(***************************************************************************)
(* C22: the default reference of a task.  A set_as_default(n, task) call   *)
(* leaves get_default_template_name(task) = n and has_custom_default(task) *)
(* true; a reset_default(task) call leaves has_custom_default(task) false  *)
(* and get_default_template_name(task) None; no other call, and no set or  *)
(* reset for another task, changes what the two return for the task; and   *)
(* load_template("default", task) returns the content of the saved         *)
(* template that the reference names when that template exists, and the    *)
(* code-generated template of the task in every other case.                *)
(***************************************************************************)
DefaultOf(fs, task) ==
    [custom |-> has_custom_default(fs, task), name |-> get_default_template_name(fs, task)]

\* the saved template that the reference of the task names, if there is one
Referenced(fs, task) ==
    LET ref == TemplateFile(fs, task, DefaultName)
    IN  {name \in SavedNames : /\ ref.exists
                               /\ ref.data = name
                               /\ TemplateFile(fs, task, name).exists}

SetContract ==
    tlast'.op = "set_as_default" =>
        DefaultOf(templates', tlast'.task)
            = [custom |-> TRUE, name |-> [some |-> TRUE, name |-> tlast'.name]]

ResetContract ==
    tlast'.op = "reset_default" =>
        DefaultOf(templates', tlast'.task) = [custom |-> FALSE, name |-> NoName]

DefaultKept ==
    \A task \in TemplateTasks :
        (tlast'.op \in {"set_as_default", "reset_default"} /\ tlast'.task = task)
        \/ DefaultOf(templates', task) = DefaultOf(templates, task)

LoadDefaultContract ==
    (tlast'.op = "load_template" /\ tlast'.name = DefaultName) =>
        /\ \A name \in Referenced(templates, tlast'.task) :
               tlast'.text = TemplateFile(templates, tlast'.task, name).data
        /\ Referenced(templates, tlast'.task) = {} =>
               tlast'.text = get_prompt_template_for_task(tlast'.task)

\* the three reading calls return what the folder of the task holds
ReadsAnswered ==
    /\ tlast'.op = "has_custom_default" =>
           tlast'.ret = has_custom_default(templates, tlast'.task)
    /\ tlast'.op = "get_default_template_name" =>
           [some |-> tlast'.ret, name |-> tlast'.text]
               = get_default_template_name(templates, tlast'.task)

C22_DefaultReference ==
    [][SetContract /\ ResetContract /\ DefaultKept /\ LoadDefaultContract
       /\ ReadsAnswered]_vars

\* "default" was loaded for a task whose reference names a saved template
\* with an edited text, while the other task has no reference
C22_Witness ==
    /\ tlast.op = "load_template"
    /\ tlast.name = DefaultName
    /\ \E name \in Referenced(templates, tlast.task) :
           /\ tlast.text = TemplateFile(templates, tlast.task, name).data
           /\ tlast.text # get_prompt_template_for_task(tlast.task)
    /\ \E other \in TemplateTasks \ {tlast.task} : ~has_custom_default(templates, other)

\* the reference names a template that is not in the folder and "default"
\* was loaded as the code-generated template
C22_DanglingReference ==
    /\ tlast.op = "load_template"
    /\ tlast.name = DefaultName
    /\ has_custom_default(templates, tlast.task)
    /\ Referenced(templates, tlast.task) = {}
    /\ tlast.text = get_prompt_template_for_task(tlast.task)

(***************************************************************************)
(* Specifications: one per part of the repository, the other parts at rest *)
(***************************************************************************)
InitComplete ==
    CmpInit /\ DirInit /\ SrvInit /\ ViewIdle /\ ParseIdle /\ PoolIdle /\ MergeIdle
    /\ ExtractIdle
    /\ ShotIdle
    /\ RefineIdle
    /\ TmplIdle
InitServer ==
    CmpIdle /\ DirInit /\ SrvInit /\ ViewIdle /\ ParseIdle /\ PoolIdle /\ MergeIdle
    /\ ExtractIdle
    /\ ShotIdle
    /\ RefineIdle
    /\ TmplIdle
InitParse ==
    CmpIdle /\ DirInit /\ SrvInit /\ ViewIdle /\ ParseInit /\ PoolIdle /\ MergeIdle
    /\ ExtractIdle
    /\ ShotIdle
    /\ RefineIdle
    /\ TmplIdle
InitPool ==
    CmpIdle /\ DirInit /\ SrvInit /\ ViewIdle /\ ParseIdle /\ PoolInit /\ MergeIdle
    /\ ExtractIdle
    /\ ShotIdle
    /\ RefineIdle
    /\ TmplIdle
InitMerge ==
    CmpIdle /\ DirInit /\ SrvInit /\ ViewIdle /\ ParseIdle /\ PoolIdle /\ MergeInit
    /\ ExtractIdle
    /\ ShotIdle
    /\ RefineIdle
    /\ TmplIdle
InitExtract ==
    CmpIdle /\ DirInit /\ SrvInit /\ ViewIdle /\ ParseIdle /\ PoolIdle /\ MergeIdle
    /\ ExtractInit
    /\ ShotIdle
    /\ RefineIdle
    /\ TmplIdle

InitStatic ==
    CmpIdle /\ DirInit /\ SrvInit /\ ViewIdle /\ ParseIdle /\ PoolIdle /\ MergeIdle
    /\ StaticInit
    /\ ShotIdle
    /\ RefineIdle
    /\ TmplIdle

InitShot ==
    CmpIdle /\ DirInit /\ SrvInit /\ ViewIdle /\ ParseIdle /\ PoolIdle /\ MergeIdle
    /\ ExtractIdle
    /\ ShotInit
    /\ RefineIdle
    /\ TmplIdle
InitListing ==
    CmpIdle /\ DirInit /\ SrvInit /\ ViewIdle /\ ParseIdle /\ PoolIdle /\ MergeIdle
    /\ ExtractIdle
    /\ ListingInit
    /\ RefineIdle
    /\ TmplIdle

InitRefine ==
    CmpIdle /\ DirInit /\ SrvInit /\ ViewIdle /\ ParseIdle /\ PoolIdle /\ MergeIdle
    /\ ExtractIdle
    /\ ShotIdle
    /\ RefineInit
    /\ TmplIdle

InitTemplates ==
    CmpIdle /\ DirInit /\ SrvInit /\ ViewIdle /\ ParseIdle /\ PoolIdle /\ MergeIdle
    /\ ExtractIdle
    /\ ShotIdle
    /\ RefineIdle
    /\ TmplInit

ParseNext == ClassifyGlobalEdit \/ ClassifyWrongTerminology

SpecComplete == InitComplete /\ [][CheckComplete]_vars
Spec == InitServer /\ [][SeqNext]_vars
SpecConc == InitServer /\ [][ConcNext]_vars
SpecViewer == InitServer /\ [][ViewerNext]_vars
SpecParse == InitParse /\ [][ParseNext]_vars
SpecPool == InitPool /\ [][PoolNext]_vars
SpecMerge == InitMerge /\ [][Merge]_vars
SpecExtract == InitExtract /\ [][ExtractSamples]_vars
SpecStatic == InitStatic /\ [][StaticNext]_vars
SpecShot == InitShot /\ [][ShotNext]_vars
SpecListing == InitListing /\ [][ListingNext]_vars
SpecRefine == InitRefine /\ [][GenerateRefineShot]_vars
SpecTemplates == InitTemplates /\ [][TmplNext]_vars

====
